---- MODULE Spec2Model ----
(***************************************************************************)
(* Component lifecycle scheduler of the yew runtime.                       *)
(*                                                                         *)
(* The model follows src/yew/src/component/link.rs: a link (shared state   *)
(* cell of one component), the five runnable tasks (Create, Update,        *)
(* Render, Rendered, Destroy) and the calls that enqueue them.  The        *)
(* scheduler module itself (crate::scheduler) is not part of the sources;  *)
(* it is modelled from the specification and from the way link.rs uses it. *)
(*                                                                         *)
(* Component 0 is the root, mounted by the driver.  Components 1..MaxKids  *)
(* are the successive instances of a child component that the root's view  *)
(* may contain (each mount of a VComp makes a fresh link).                 *)
(*                                                                         *)
(* Further parts: the list diff of the virtual DOM, the search for a       *)
(* context provider, the effect hooks of a function component, the borrows *)
(* of one state cell (lifecycle.rs against link.rs), and the component of  *)
(* the html/scope.rs revision, each with a specification of its own.       *)
(***************************************************************************)
EXTENDS Integers, Sequences, FiniteSets, TLC

\* ---------------------------------------------------------------- bounds
MaxKids == 2        \* child instances the root may mount
MaxMsgs == 2        \* messages sent during one run (ids 1..MaxMsgs)
MaxBatch == 2       \* longest batch handed to send_message_batch
MaxDestroy == 2     \* destroy requests the driver issues for the root
MaxProp == 1        \* property values are 0..MaxProp
MaxLen == 3         \* children of one fragment
MaxRefs == 1        \* nodes handed to the tree by reference (VRef)
MaxLinks == 4       \* links of the tree a context provider is searched in
MaxCalls == 2       \* callbacks of a function component invoked from outside
MaxSends == 3       \* messages sent to the component whose state cell is watched
MaxRenders == 2     \* calls of Scope::render for one component

Root == 0
Kids == 1..MaxKids
Comps == 0..MaxKids
PropVals == 0..MaxProp

\* ---------------------------------------------------------------- Option
None == <<>>
Some(x) == <<x>>
IsSome(o) == o # <<>>
Unwrap(o) == o[1]

\* ------------------------------------------------- messages and updates
\* A message carries its identity and the value update() returns for it.
Msg(i, b) == [id |-> i, r |-> b]

\* A NodeRef, told apart by what it stands for: the slot of the VComp in
\* the tree of version v, or the sibling that follows it there.
NoRef == [of |-> "default", ver |-> 0]
VCompRef(v) == [of |-> "vcomp", ver |-> v]
SiblingRef(v) == [of |-> "sibling", ver |-> v]

\* enum ComponentUpdate
First ==
    [t |-> "First", ms |-> <<>>, props |-> 0, node_ref |-> NoRef,
     next_sibling |-> NoRef]
Message(m) ==
    [t |-> "Message", ms |-> <<m>>, props |-> 0, node_ref |-> NoRef,
     next_sibling |-> NoRef]
MessageBatch(ms) ==
    [t |-> "MessageBatch", ms |-> ms, props |-> 0, node_ref |-> NoRef,
     next_sibling |-> NoRef]
Properties(p, nref, ns) ==
    [t |-> "Properties", ms |-> <<>>, props |-> p, node_ref |-> nref,
     next_sibling |-> ns]

\* ------------------------------------------------------------ the tasks
CreateComponent(c, p, ph, nref, ns) ==
    [kind |-> "Create", comp |-> c, update |-> First, first_render |-> FALSE,
     props |-> p, placeholder |-> ph, node_ref |-> nref, next_sibling |-> ns]
UpdateComponent(c, u) ==
    [kind |-> "Update", comp |-> c, update |-> u, first_render |-> FALSE,
     props |-> 0, placeholder |-> None, node_ref |-> NoRef,
     next_sibling |-> NoRef]
RenderComponent(c, f) ==
    [kind |-> "Render", comp |-> c, update |-> First, first_render |-> f,
     props |-> 0, placeholder |-> None, node_ref |-> NoRef,
     next_sibling |-> NoRef]
RenderedComponent(c, f) ==
    [kind |-> "Rendered", comp |-> c, update |-> First, first_render |-> f,
     props |-> 0, placeholder |-> None, node_ref |-> NoRef,
     next_sibling |-> NoRef]
DestroyComponent(c) ==
    [kind |-> "Destroy", comp |-> c, update |-> First, first_render |-> FALSE,
     props |-> 0, placeholder |-> None, node_ref |-> NoRef,
     next_sibling |-> NoRef]

\* ---------------------------------------------------------------- trees
\* A node tree as far as the lifecycle is concerned: ver tells renders
\* apart (0 is the placeholder text node), want/cp is the child VComp the
\* tree contains (its properties and its component type), kid the instance
\* mounted for it.
CompTypes == {"A", "B"}
VTree(v, want, cp, ty) ==
    [ver |-> v, want |-> want, cp |-> cp, ty |-> ty, kid |-> 0]
Placeholder == VTree(0, FALSE, 0, "A")

\* struct ComponentState, as built by ComponentState::new
ComponentState(p, ph, nref, ns) ==
    [props |-> p, placeholder |-> ph, node_ref |-> nref, next_sibling |-> ns,
     last_root |-> None, new_root |-> None,
     has_rendered |-> FALSE, pending_updates |-> <<>>, views |-> 0]

VARIABLES
    q,          \* the scheduler's queues, by task type
    running,    \* the scheduler loop (start) holds the lock exclusively
    locks,      \* shared holds of the scheduler lock (Scheduler::lock)
    state,      \* state[c]: Option<ComponentState>, the link's shared cell
    surf,       \* surf[c]: what stands in the surface on behalf of c
    nextId,     \* next message id
    nextKid,    \* next child instance
    pc,         \* position of the driver inside mount_in_place
    call,       \* the driver's current (or last) call into a link
    destroys,   \* destroy requests issued by the driver
    hist,       \* per component: what has happened so far
    last,       \* the task executed last and what it did
    dom,        \* a parent element and the tree rendered into it
    refs,       \* refs[c]: what the NodeRef of component c holds
    ctx,        \* a tree of links and one search for a context provider in it
    fc,         \* a function component with its two effect hooks
    cell        \* the state cell of one component and the borrows of it

vars == <<q, running, locks, state, surf, nextId, nextKid, pc, call,
          destroys, hist, last, dom, refs, ctx, fc, cell>>

\* The part of the state that the operators below thread through a task.
W == [q |-> q, running |-> running, locks |-> locks, state |-> state,
      surf |-> surf, nextId |-> nextId, nextKid |-> nextKid, refs |-> refs,
      calls |-> <<>>, pushed |-> 0]

\* ------------------------------------------------------------ scheduler
EmptyQueues ==
    [Destroy |-> <<>>, Create |-> <<>>, Update |-> <<>>, Render |-> <<>>,
     Rendered |-> <<>>]

\* Scheduler::start: enters the loop unless the lock is taken.
start(w) ==
    IF ~w.running /\ w.locks = 0 THEN [w EXCEPT !.running = TRUE] ELSE w

\* Scheduler::lock: a shared hold, refused while the loop runs.
lock(w) == IF ~w.running THEN [w EXCEPT !.locks = @ + 1] ELSE w

\* drop(lock)
unlock(w) == IF w.locks > 0 THEN [w EXCEPT !.locks = @ - 1] ELSE w

\* Scheduler::push_comp
push_comp(w, type, task) ==
    start([w EXCEPT !.q[type] = Append(@, task), !.pushed = @ + 1])

\* Scheduler::push_comp_update_batch
push_comp_update_batch(w, tasks) ==
    start([w EXCEPT !.q.Update = @ \o tasks, !.pushed = @ + Len(tasks)])

\* Scheduler::next_runnable: destroy, create, update, render, then the
\* rendered stack.
NextKind ==
    IF q.Destroy # <<>> THEN "Destroy"
    ELSE IF q.Create # <<>> THEN "Create"
    ELSE IF q.Update # <<>> THEN "Update"
    ELSE IF q.Render # <<>> THEN "Render"
    ELSE IF q.Rendered # <<>> THEN "Rendered"
    ELSE "none"

NextTask ==
    IF NextKind = "Rendered" THEN q.Rendered[Len(q.Rendered)]
    ELSE Head(q[NextKind])

Popped ==
    IF NextKind = "Rendered"
    THEN [W EXCEPT !.q.Rendered = SubSeq(@, 1, Len(@) - 1)]
    ELSE [W EXCEPT !.q[NextKind] = Tail(@)]

\* ----------------------------------------------------------------- link
\* Link::update
Link_update(w, c, u) == push_comp(w, "Update", UpdateComponent(c, u))

\* send_message that runs update() on the spot instead of only scheduling it
send_message_inline(w, c, m) ==
    [Link_update(w, c, Message(m)) EXCEPT !.calls = Append(@, <<"update", m.id>>)]

\* Link::send_message
send_message(w, c, m) == Link_update(w, c, Message(m))

\* Link::send_message_batch
send_message_batch(w, c, ms) ==
    IF ms = <<>> THEN w ELSE Link_update(w, c, MessageBatch(ms))

\* A destroy that calls destroy() on the spot besides scheduling the task
Link_destroy_inline(w, c) ==
    [push_comp(w, "Destroy", DestroyComponent(c)) EXCEPT
        !.calls = Append(@, <<"destroy", 0>>)]

\* LinkHandle::destroy
Link_destroy(w, c) == push_comp(w, "Destroy", DestroyComponent(c))

\* mount_in_place that does not hold the scheduler lock
mount_in_place_create_nolock(w, c, p, ph, nref, ns) ==
    push_comp(w, "Create", CreateComponent(c, p, ph, nref, ns))

\* Link::mount_in_place up to and including the push of the Create task
mount_in_place_create(w, c, p, ph, nref, ns) ==
    push_comp(lock(w), "Create", CreateComponent(c, p, ph, nref, ns))

\* Link::mount_in_place from self.update(First) to the end
mount_in_place_first(w, c) == start(unlock(Link_update(w, c, First)))

\* ------------------------------------------------ component callbacks
\* What a callback of component c may do besides its own work: send
\* nothing, send one message to its own link, or (a child) to its parent.
NoSend == [to |-> "none", r |-> FALSE]
SendChoices(c) ==
    {NoSend} \cup {[to |-> "self", r |-> b] : b \in BOOLEAN}
             \cup (IF c \in Kids THEN {[to |-> "parent", r |-> b] : b \in BOOLEAN}
                   ELSE {})

\* Records that callback name ran (for message i, 0 if none).
Call(w, name, i) == [w EXCEPT !.calls = Append(@, <<name, i>>)]

\* ctx.link.send_message(..) from inside a callback of c
DoSend(w, c, s) ==
    IF s.to = "none" THEN w
    ELSE LET m == Msg(w.nextId, s.r)
             w0 == [Call(w, "send", m.id) EXCEPT !.nextId = @ + 1]
             w1 == IF s.to = "self" THEN Call(w0, "self", m.id) ELSE w0
         IN send_message(w1, IF s.to = "self" THEN c ELSE Root, m)

\* The choices one Update task may need: sends[i] for the i-th call of
\* update()/changed(), sends[MaxBatch + 1] for view().
ViewIx == MaxBatch + 1
ViewChoices(c) ==
    IF c = Root
    THEN {[want |-> b, cp |-> p, ty |-> y] :
              b \in BOOLEAN, p \in PropVals, y \in CompTypes}
    ELSE {[want |-> FALSE, cp |-> 0, ty |-> "A"]}

\* ---------------------------------------------------------------- tasks
\* CreateComponent::run
Create_run(w, t, s) ==
    IF w.state[t.comp] = None
    THEN LET w1 == DoSend(Call(w, "create", 0), t.comp, s)
         IN [w1 EXCEPT !.state[t.comp] =
                            Some(ComponentState(t.props, t.placeholder,
                                                t.node_ref, t.next_sibling))]
    ELSE w

\* A fold that stops calling update() once a message asked for a render
\* (acc || component.update(..) instead of component.update(..) || acc).
RECURSIVE UpdateFold_short(_, _, _, _, _)
UpdateFold_short(w, c, ms, sends, i) ==
    IF i > Len(ms) THEN w
    ELSE IF i > 1 /\ ms[i - 1].r THEN w
    ELSE UpdateFold_short(DoSend(Call(w, "update", ms[i].id), c, sends[i]),
                          c, ms, sends, i + 1)

\* The fold of UpdateComponent::run over the messages of a batch: every
\* message is passed to update().
RECURSIVE UpdateFold(_, _, _, _, _)
UpdateFold(w, c, ms, sends, i) ==
    IF i > Len(ms) THEN w
    ELSE UpdateFold(DoSend(Call(w, "update", ms[i].id), c, sends[i]),
                    c, ms, sends, i + 1)

RECURSIVE AnyTrue(_)
AnyTrue(ms) == IF ms = <<>> THEN FALSE ELSE Head(ms).r \/ AnyTrue(Tail(ms))

\* should_update that lets the component decide on the first update too
ShouldUpdate_first(s, u, changed) ==
    CASE u.t = "First" -> FALSE
      [] u.t = "Message" -> u.ms[1].r
      [] u.t = "MessageBatch" -> AnyTrue(u.ms)
      [] OTHER -> IF s.props # u.props THEN changed ELSE FALSE

\* should_update that renders on every Properties update
ShouldUpdate_always(s, u, changed) ==
    CASE u.t = "First" -> TRUE
      [] u.t = "Message" -> u.ms[1].r
      [] u.t = "MessageBatch" -> AnyTrue(u.ms)
      [] OTHER -> TRUE

\* should_update of UpdateComponent::run
ShouldUpdate(s, u, changed) ==
    CASE u.t = "First" -> TRUE
      [] u.t = "Message" -> u.ms[1].r
      [] u.t = "MessageBatch" -> AnyTrue(u.ms)
      [] OTHER -> IF s.props # u.props THEN changed ELSE FALSE

\* An Update task that does not look whether a render is in flight
Update_run_nodefer(w, t, ch) ==
    LET c == t.comp IN
    IF w.state[c] = None THEN w
    ELSE LET s == Unwrap(w.state[c])
             u == t.update
             w1 == CASE u.t = "First" -> w
                     [] u.t \in {"Message", "MessageBatch"} ->
                           UpdateFold(w, c, u.ms, ch.sends, 1)
                     [] OTHER ->
                           LET wc == IF s.props # u.props
                                     THEN DoSend(Call(w, "changed", IF ch.changed THEN 1 ELSE 0),
                                                 c, ch.sends[1])
                                     ELSE w
                           IN [wc EXCEPT !.state[c][1].props = u.props,
                                          !.state[c][1].node_ref = u.node_ref,
                                          !.state[c][1].next_sibling = u.next_sibling]
             should == ShouldUpdate(s, u, ch.changed)
         IN IF should
            THEN LET w2 == DoSend(Call(w1, "view", 0), c, ch.sends[ViewIx])
                     tree == VTree(s.views + 1, ch.view.want, ch.view.cp,
                                   ch.view.ty)
                     w3 == [w2 EXCEPT !.state[c][1].new_root = Some(tree),
                                      !.state[c][1].views = @ + 1]
                 IN push_comp(w3, "Render", RenderComponent(c, u.t = "First"))
            ELSE w1

\* UpdateComponent::run
Update_run(w, t, ch) ==
    LET c == t.comp IN
    IF w.state[c] = None THEN w
    ELSE LET s == Unwrap(w.state[c]) IN
      IF IsSome(s.new_root)
      THEN [w EXCEPT !.state[c][1].pending_updates = Append(@, t)]
      ELSE
        LET u == t.update
            w1 == CASE u.t = "First" -> w
                    [] u.t \in {"Message", "MessageBatch"} ->
                          UpdateFold(w, c, u.ms, ch.sends, 1)
                    [] OTHER ->
                          LET wc == IF s.props # u.props
                                    THEN DoSend(Call(w, "changed", IF ch.changed THEN 1 ELSE 0),
                                                 c, ch.sends[1])
                                    ELSE w
                          IN [wc EXCEPT !.state[c][1].props = u.props,
                                          !.state[c][1].node_ref = u.node_ref,
                                          !.state[c][1].next_sibling = u.next_sibling]
            should == ShouldUpdate(s, u, ch.changed)
        IN IF should
           THEN LET w2 == DoSend(Call(w1, "view", 0), c, ch.sends[ViewIx])
                    tree == VTree(s.views + 1, ch.view.want, ch.view.cp,
                                   ch.view.ty)
                    w3 == [w2 EXCEPT !.state[c][1].new_root = Some(tree),
                                     !.state[c][1].views = @ + 1]
                IN push_comp(w3, "Render", RenderComponent(c, u.t = "First"))
           ELSE w1

\* VComp::detach of the child instance k (0: the tree had no child)
Detach(w, k) ==
    IF k # 0 THEN Link_destroy(Call(w, "detach_kid", k), k) ELSE w

\* PropsWrapper::mount of a fresh child instance for the VComp of tree nr
Mount(w, nr) ==
    LET k == w.nextKid
        w2 == [Call(w, "mount_kid", k) EXCEPT !.surf[k] = Some(Placeholder.ver),
                                              !.refs[k] = "placeholder",
                                              !.nextKid = @ + 1]
        w3 == mount_in_place_create(w2, k, nr.cp, Some(Placeholder),
                                    VCompRef(nr.ver), SiblingRef(nr.ver))
    IN [w |-> mount_in_place_first(w3, k), kid |-> k]

\* An apply that never reuses the ancestor's instance
Apply_remount(w, c, nr, anc) ==
    LET akid == IF IsSome(anc) THEN Unwrap(anc).kid ELSE 0
        w1 == [Call(w, "apply", 0) EXCEPT !.surf[c] = Some(nr.ver)]
    IN IF nr.want THEN Mount(Detach(w1, akid), nr)
       ELSE [w |-> Detach(w1, akid), kid |-> 0]

\* VNode::apply of the tree nr of component c against the ancestor anc:
\* the tree replaces the ancestor in the surface, and the child VComp
\* reuses the ancestor's instance if that is of the same type, else the
\* ancestor is detached and a fresh instance mounted (VComp::apply).
Apply(w, c, nr, anc) ==
    LET akid == IF IsSome(anc) THEN Unwrap(anc).kid ELSE 0
        w1 == [Call(w, "apply", 0) EXCEPT !.surf[c] = Some(nr.ver)]
    IN IF nr.want /\ akid # 0 /\ Unwrap(anc).ty = nr.ty
       THEN [w |-> Link_update(Call(w1, "reuse_kid", akid), akid,
                               Properties(nr.cp, VCompRef(nr.ver),
                                          SiblingRef(nr.ver))),
             kid |-> akid]
       ELSE IF nr.want THEN Mount(Detach(w1, akid), nr)
       ELSE [w |-> Detach(w1, akid), kid |-> 0]

\* A Render task that calls rendered() on the spot instead of scheduling a
\* Rendered task
Render_run_eager(w, t) ==
    LET c == t.comp IN
    IF w.state[c] = None THEN w
    ELSE LET s == Unwrap(w.state[c]) IN
      IF ~t.first_render /\ s.last_root = None THEN w
      ELSE IF s.new_root = None THEN w
      ELSE LET anc == IF IsSome(s.last_root) THEN s.last_root ELSE s.placeholder
               a == Apply(w, c, Unwrap(s.new_root), anc)
               applied == [Unwrap(s.new_root) EXCEPT !.kid = a.kid]
               w1 == [a.w EXCEPT
                        !.refs[c] = "root",
                        !.state[c][1].new_root = None,
                        !.state[c][1].placeholder =
                            IF IsSome(s.last_root) THEN @ ELSE None,
                        !.state[c][1].last_root = Some(applied),
                        !.state[c][1].has_rendered = TRUE]
           IN Call(w1, "rendered", 0)

\* RenderComponent::run
Render_run(w, t) ==
    LET c == t.comp IN
    IF w.state[c] = None THEN w
    ELSE LET s == Unwrap(w.state[c]) IN
      IF ~t.first_render /\ s.last_root = None THEN w
      ELSE IF s.new_root = None THEN w
      ELSE LET anc == IF IsSome(s.last_root) THEN s.last_root ELSE s.placeholder
               a == Apply(w, c, Unwrap(s.new_root), anc)
               applied == [Unwrap(s.new_root) EXCEPT !.kid = a.kid]
               w1 == [a.w EXCEPT
                        !.refs[c] = "root",
                        !.state[c][1].new_root = None,
                        !.state[c][1].placeholder =
                            IF IsSome(s.last_root) THEN @ ELSE None,
                        !.state[c][1].last_root = Some(applied)]
           IN push_comp(w1, "Rendered", RenderedComponent(c, t.first_render))

\* A Rendered task that calls rendered() whatever has_rendered says
NotYetRendered_never(t, s) == FALSE

\* RenderedComponent::run: !self.first_render && !state.has_rendered
NotYetRendered(t, s) == ~t.first_render /\ ~s.has_rendered

\* A Rendered task that does not look whether the state is still there
Rendered_run_unchecked(w, t, sd) ==
    LET c == t.comp IN
    IF w.state[c] = None THEN DoSend(Call(w, "rendered", 0), c, sd)
    ELSE LET s == Unwrap(w.state[c]) IN
      IF NotYetRendered(t, s) THEN w
      ELSE LET w1 == [w EXCEPT !.state[c][1].has_rendered = TRUE]
               w2 == DoSend(Call(w1, "rendered", 0), c, sd)
           IN IF s.pending_updates # <<>>
              THEN push_comp_update_batch(
                       [w2 EXCEPT !.state[c][1].pending_updates = <<>>],
                       s.pending_updates)
              ELSE w2

\* A Rendered task that re-enqueues the deferred updates before it calls
\* rendered()
Rendered_run_drain_first(w, t, sd) ==
    LET c == t.comp IN
    IF w.state[c] = None THEN w
    ELSE LET s == Unwrap(w.state[c]) IN
      IF NotYetRendered(t, s) THEN w
      ELSE LET w1 == [w EXCEPT !.state[c][1].has_rendered = TRUE,
                               !.state[c][1].pending_updates = <<>>]
               w2 == IF s.pending_updates # <<>>
                     THEN push_comp_update_batch(w1, s.pending_updates)
                     ELSE w1
           IN DoSend(Call(w2, "rendered", 0), c, sd)

\* RenderedComponent::run
Rendered_run(w, t, sd) ==
    LET c == t.comp IN
    IF w.state[c] = None THEN w
    ELSE LET s == Unwrap(w.state[c]) IN
      IF NotYetRendered(t, s) THEN w
      ELSE LET w1 == [w EXCEPT !.state[c][1].has_rendered = TRUE]
               w2 == DoSend(Call(w1, "rendered", 0), c, sd)
           IN IF s.pending_updates # <<>>
              THEN push_comp_update_batch(
                       [w2 EXCEPT !.state[c][1].pending_updates = <<>>],
                       s.pending_updates)
              ELSE w2

\* A Destroy task that leaves the reference holding the node it was given
NodeRef_reset_skip(w, c) == w

\* state.node_ref.set(None) at the end of DestroyComponent::run
NodeRef_reset(w, c) == [w EXCEPT !.refs[c] = "none"]

\* A Destroy task that leaves the state in the cell (as_mut() for take())
Destroy_run_keep(w, t, sd) ==
    LET c == t.comp IN
    IF w.state[c] = None THEN w
    ELSE LET s == Unwrap(w.state[c])
             w2 == DoSend(Call(w, "destroy", 0), c, sd)
             w4 == IF IsSome(s.last_root)
                   THEN LET w3 == [Call(w2, "detach", 0) EXCEPT !.surf[c] = None]
                            k == Unwrap(s.last_root).kid
                        IN IF k # 0 THEN Link_destroy(w3, k) ELSE w3
                   ELSE w2
         IN NodeRef_reset(w4, c)

\* DestroyComponent::run
Destroy_run(w, t, sd) ==
    LET c == t.comp IN
    IF w.state[c] = None THEN w
    ELSE LET s == Unwrap(w.state[c])
             w1 == [w EXCEPT !.state[c] = None]
             w2 == DoSend(Call(w1, "destroy", 0), c, sd)
             w4 == IF IsSome(s.last_root)
                   THEN LET w3 == [Call(w2, "detach", 0) EXCEPT !.surf[c] = None]
                            k == Unwrap(s.last_root).kid
                        IN IF k # 0 THEN Link_destroy(w3, k) ELSE w3
                   ELSE w2
         IN NodeRef_reset(w4, c)

\* -------------------------------------------------------------- history
HistInit ==
    [created |-> 0, destroyed |-> 0, destroyRan |-> FALSE, inflight |-> FALSE,
     maxUpd |-> 0, firstDone |-> FALSE, applied |-> 0, rendered |-> 0,
     renderedFalse |-> 0, seen |-> {}, needTrue |-> {}, needFalse |-> {},
     needApply |-> {}, views |-> 0, plain |-> TRUE, mountId |-> 0]

\* The names / message ids of the callbacks recorded in a task's calls.
Names(calls) == {calls[i][1] : i \in DOMAIN calls}
IdsOf(calls, name) == {calls[i][2] : i \in {j \in DOMAIN calls : calls[j][1] = name}}
Count(calls, name) == Cardinality({j \in DOMAIN calls : calls[j][1] = name})
SetMax(S, d) == IF S = {} THEN d ELSE CHOOSE x \in S : \A y \in S : y <= x

\* The messages the component sent to its own link from inside update(),
\* in a task that went on to call view().
SentInUpdate(calls) ==
    IF "view" \notin Names(calls) THEN {}
    ELSE {calls[i][2] : i \in {j \in DOMAIN calls :
                                  /\ calls[j][1] = "self"
                                  /\ j > 2
                                  /\ calls[j - 2][1] = "update"}}

\* The messages the component sent to its own link from inside create(),
\* its first view() or rendered(true).
SentInMount(t, calls) ==
    IF \/ t.kind = "Create"
       \/ t.kind = "Update" /\ t.update.t = "First"
       \/ t.kind = "Rendered" /\ t.first_render
    THEN IdsOf(calls, "self") ELSE {}

HistAfter(h, t, calls, id) ==
    [created |-> h.created + Count(calls, "create"),
     destroyed |-> h.destroyed + Count(calls, "destroy"),
     destroyRan |-> h.destroyRan \/ t.kind = "Destroy",
     inflight |-> IF "view" \in Names(calls) THEN TRUE
                  ELSE IF "rendered" \in Names(calls) THEN FALSE
                  ELSE h.inflight,
     maxUpd |-> SetMax(IdsOf(calls, "update") \cup {h.maxUpd}, 0),
     firstDone |-> h.firstDone \/ (t.kind = "Update" /\ t.update.t = "First"
                                    /\ "view" \in Names(calls)),
     applied |-> h.applied + Count(calls, "apply"),
     rendered |-> h.rendered + Count(calls, "rendered"),
     renderedFalse |-> h.renderedFalse
                       + (IF t.first_render THEN 0 ELSE Count(calls, "rendered")),
     seen |-> h.seen \cup IdsOf(calls, "update"),
     needTrue |-> h.needTrue \cup SentInMount(t, calls),
     needFalse |-> h.needFalse
                   \cup {<<i, h.renderedFalse + 1>> : i \in SentInUpdate(calls)},
     needApply |-> h.needApply
                   \cup {<<i, h.applied + 1>> : i \in SentInUpdate(calls)},
     views |-> h.views + Count(calls, "view"),
     plain |-> /\ h.plain
               /\ "changed" \notin Names(calls)
               /\ "update" \in Names(calls) =>
                     (t.update.t = "Message" /\ t.update.ms[1].r),
     mountId |-> IF h.mountId = 0 /\ t.kind = "Rendered"
                    /\ "rendered" \in Names(calls)
                 THEN id ELSE h.mountId]

NoTask == DestroyComponent(Root)
LastInit ==
    [kind |-> "none", task |-> NoTask, calls |-> <<>>, pre |-> HistInit,
     live |-> FALSE, inwin |-> FALSE, firstq |-> FALSE, effect |-> FALSE,
     pending |-> 0]

\* The parent element before anything is rendered into it.
NoDom == [root |-> None, children |-> <<>>, panic |-> FALSE]

NoCall == [api |-> "none", ids |-> <<>>, pushed |-> 0, done |-> TRUE, ran |-> FALSE]

\* A function component that is not mounted: the tasks of its link, the
\* fields of its ComponentState, its MsgQueue, the state of its use_effect
\* hook (effect) and of its use_effect_with_deps hook (deps, destructor).
NoFc ==
    [phase |-> "unmounted", updates |-> <<>>, render |-> <<>>, rendered |-> <<>>,
     new_root |-> 0, last_root |-> 0, has_rendered |-> FALSE, pending |-> <<>>,
     message_queue |-> <<>>, hooks |-> FALSE,
     effect |-> [callback |-> 0, destructor |-> 0], deps |-> 0, destructor |-> 0,
     views |-> 0, calls |-> 0, log |-> <<>>]

\* No link tree is being searched.
NoCtx == [parent |-> <<>>, type_id |-> <<>>, link |-> 0, T |-> "none",
          done |-> TRUE, found |-> 0, downcast |-> {}, panic |-> FALSE]

\* No component's cell is watched: nothing is mounted. impl tells which
\* code runs the tasks, ComponentRunnable::run of lifecycle.rs or the five
\* runnables of link.rs; ran is the task run last since the driver's call,
\* deferred counts the updates put into pending_updates.
EmptyCellQueues ==
    [Destroy |-> <<>>, Create |-> <<>>, Update |-> <<>>, Render |-> <<>>,
     Rendered |-> <<>>]
NoCell ==
    [impl |-> "link", phase |-> "unmounted", state |-> None, borrows |-> 0,
     panic |-> FALSE, q |-> EmptyCellQueues, sent |-> 0, deferred |-> 0,
     ran |-> "none"]

\* ---------------------------------------------------------------- state
Unmounted ==
    /\ q = EmptyQueues
    /\ running = FALSE
    /\ locks = 0
    /\ state = [c \in Comps |-> None]
    /\ surf = [c \in Comps |-> None]
    /\ nextId = 1
    /\ nextKid = 1
    /\ pc = "unmounted"
    /\ call = NoCall
    /\ destroys = 0
    /\ hist = [c \in Comps |-> HistInit]
    /\ last = LastInit
    /\ dom = NoDom
    /\ refs = [c \in Comps |-> "none"]
    /\ fc = NoFc

Init == Unmounted /\ ctx = NoCtx /\ cell = NoCell

\* The state after a step that leaves w behind.
Commit(w) ==
    /\ q' = w.q
    /\ running' = w.running
    /\ locks' = w.locks
    /\ state' = w.state
    /\ surf' = w.surf
    /\ nextId' = w.nextId
    /\ nextKid' = w.nextKid
    /\ dom' = dom
    /\ refs' = w.refs
    /\ ctx' = ctx
    /\ fc' = fc
    /\ cell' = cell

\* A link to c exists (its mount has been issued).
Linked(c) == IF c = Root THEN pc = "mounted" ELSE c < nextKid

\* Bookkeeping common to every executed task t that left w behind.
Ran(t, wx) ==
    \E w \in {wx} :
    /\ w.nextId <= MaxMsgs + 1
    /\ Commit(w)
    /\ hist' = [hist EXCEPT ![t.comp] = HistAfter(@, t, w.calls, nextId)]
    /\ last' = [kind |-> t.kind, task |-> t, calls |-> w.calls,
                pre |-> hist[t.comp], live |-> IsSome(state[t.comp]),
                inwin |-> (IsSome(state[t.comp])
                           /\ IsSome(Unwrap(state[t.comp]).new_root)),
                firstq |-> (\E i \in DOMAIN q.Update :
                               q.Update[i] = UpdateComponent(t.comp, First)),
                effect |-> (w.state # state \/ w.surf # surf \/ w.pushed > 0),
                pending |-> IF IsSome(state[t.comp])
                            THEN Len(Unwrap(state[t.comp]).pending_updates)
                            ELSE 0]
    /\ call' = IF call.done THEN call ELSE [call EXCEPT !.ran = TRUE]
    /\ UNCHANGED <<pc, destroys>>

\* ------------------------------------------------- the scheduler's loop
RunCreate ==
    /\ running /\ NextKind = "Create"
    /\ \E s \in SendChoices(NextTask.comp) :
          /\ (state[NextTask.comp] # None => s = NoSend)
          /\ Ran(NextTask, Create_run(Popped, NextTask, s))

\* How many calls of update()/changed() the task makes, and whether view()
\* is called: the choices for callbacks that do not run are fixed.
UpdateCalls(t) ==
    IF state[t.comp] = None \/ IsSome(Unwrap(state[t.comp]).new_root) THEN 0
    ELSE IF t.update.t \in {"Message", "MessageBatch"} THEN Len(t.update.ms)
    ELSE IF t.update.t = "Properties"
            /\ Unwrap(state[t.comp]).props # t.update.props THEN 1
    ELSE 0

Views(t, changed) ==
    /\ state[t.comp] # None
    /\ Unwrap(state[t.comp]).new_root = None
    /\ ShouldUpdate(Unwrap(state[t.comp]), t.update, changed)

\* view() may contain a child of type ty only if an instance is there for
\* it: a fresh one, or the one of the same type in the last tree.
KidAvailable(c, ty) ==
    \/ nextKid <= MaxKids
    \/ /\ IsSome(Unwrap(state[c]).last_root)
       /\ Unwrap(Unwrap(state[c]).last_root).kid # 0
       /\ Unwrap(Unwrap(state[c]).last_root).ty = ty

\* The choices for n successive callbacks of c.
RECURSIVE SendSeqs(_, _)
SendSeqs(c, n) ==
    IF n = 0 THEN {<<>>}
    ELSE {Append(ss, s) : ss \in SendSeqs(c, n - 1), s \in SendChoices(c)}

\* The Update task at the head runs; views are the trees view() of its
\* component may return.
UpdateStep(views) ==
    /\ NextKind = "Update"
    /\ LET t == NextTask
           c == t.comp
       IN \E us \in SendSeqs(c, UpdateCalls(t)),
             changed \in IF UpdateCalls(t) > 0 /\ t.update.t = "Properties"
                         THEN BOOLEAN ELSE {FALSE} :
            \E sv \in IF Views(t, changed) THEN SendChoices(c) ELSE {NoSend},
               view \in IF Views(t, changed) THEN views
                        ELSE {[want |-> FALSE, cp |-> 0, ty |-> "A"]} :
              /\ view.want => KidAvailable(c, view.ty)
              /\ ~view.want => (view.cp = 0 /\ view.ty = "A")
              /\ Ran(t, Update_run(Popped, t,
                         [sends |-> [i \in 1..ViewIx |->
                                       IF i <= Len(us) THEN us[i]
                                       ELSE IF i = ViewIx THEN sv ELSE NoSend],
                          changed |-> changed, view |-> view]))

RunUpdate ==
    /\ running /\ NextKind = "Update"
    /\ UpdateStep(ViewChoices(NextTask.comp))

RunRender ==
    /\ running /\ NextKind = "Render"
    /\ Ran(NextTask, Render_run(Popped, NextTask))

RunRendered ==
    /\ running /\ NextKind = "Rendered"
    /\ \E s \in SendChoices(NextTask.comp) :
          /\ LET c == NextTask.comp
             IN (state[c] = None
                 \/ (~NextTask.first_render /\ ~Unwrap(state[c]).has_rendered))
                => s = NoSend
          /\ Ran(NextTask, Rendered_run(Popped, NextTask, s))

RunDestroy ==
    /\ running /\ NextKind = "Destroy"
    /\ \E s \in SendChoices(NextTask.comp) :
          /\ (state[NextTask.comp] = None => s = NoSend)
          /\ Ran(NextTask, Destroy_run(Popped, NextTask, s))

\* Scheduler::start returns: no runnable is left.
LoopExit ==
    /\ running /\ NextKind = "none"
    /\ running' = FALSE
    /\ call' = IF pc = "create_pushed" THEN call ELSE [call EXCEPT !.done = TRUE]
    /\ UNCHANGED <<q, locks, state, surf, nextId, nextKid, pc, destroys, hist, last,
                   dom, refs, ctx, fc, cell>>

\* ----------------------------------------------------------- the driver
\* A call of the driver into a link that left w behind.
Called(api, ids, wx) ==
    \E w \in {wx} :
    /\ Commit(w)
    /\ call' = [api |-> api, ids |-> ids, pushed |-> w.pushed,
                done |-> ~w.running, ran |-> FALSE]
    /\ UNCHANGED <<hist, last>>

\* The driver mounts the root: mount_in_place up to the push of Create...
MountBegin ==
    /\ pc = "unmounted" /\ ~running
    /\ Called("mount_in_place", <<>>, mount_in_place_create(W, Root, 0, None, NoRef, NoRef))
    /\ pc' = "create_pushed"
    /\ UNCHANGED destroys

\* ... and from the push of the First update on.
MountFinish ==
    /\ pc = "create_pushed" /\ ~running
    /\ LET w == mount_in_place_first(W, Root)
       IN /\ Commit(w)
          /\ call' = [call EXCEPT !.pushed = @ + w.pushed, !.done = ~w.running]
    /\ pc' = "mounted"
    /\ UNCHANGED <<destroys, hist, last>>

\* An event handler or the driver sends a message through the link of c.
SendMessage ==
    /\ pc = "mounted" /\ ~running /\ nextId <= MaxMsgs
    /\ \E c \in Comps, b \in BOOLEAN :
          /\ Linked(c)
          /\ Called("send_message", <<nextId>>,
                    send_message([W EXCEPT !.nextId = @ + 1], c, Msg(nextId, b)))
    /\ UNCHANGED <<pc, destroys>>

BatchOf(bs) == [i \in 1..Len(bs) |-> Msg(nextId + i - 1, bs[i])]

SendMessageBatch ==
    /\ pc = "mounted" /\ ~running
    /\ \E c \in Comps, n \in 0..MaxBatch :
          /\ Linked(c)
          /\ nextId + n <= MaxMsgs + 1
          /\ \E bs \in [1..n -> BOOLEAN] :
                Called("send_message_batch", [i \in 1..n |-> nextId + i - 1],
                       send_message_batch([W EXCEPT !.nextId = @ + n], c, BatchOf(bs)))
    /\ UNCHANGED <<pc, destroys>>

\* The driver unmounts the root.
DestroyRoot ==
    /\ pc = "mounted" /\ ~running /\ destroys < MaxDestroy
    /\ Called("destroy", <<>>, Link_destroy(W, Root))
    /\ destroys' = destroys + 1
    /\ UNCHANGED pc

Next ==
    \/ MountBegin
    \/ MountFinish
    \/ SendMessage
    \/ SendMessageBatch
    \/ DestroyRoot
    \/ RunCreate
    \/ RunUpdate
    \/ RunRender
    \/ RunRendered
    \/ RunDestroy
    \/ LoopExit

Spec == Init /\ [][Next]_vars

\* The same program with components nested three deep: every instance
\* but the last may have a child component at the top of its tree, so a
\* component can be detached by the render of its grandparent.
NestedViewChoices(c) ==
    IF c < MaxKids
    THEN {[want |-> b, cp |-> 0, ty |-> "A"] : b \in BOOLEAN}
    ELSE {[want |-> FALSE, cp |-> 0, ty |-> "A"]}

RunUpdateNested ==
    /\ running /\ NextKind = "Update"
    /\ UpdateStep(NestedViewChoices(NextTask.comp))

NextNested ==
    \/ MountBegin
    \/ MountFinish
    \/ SendMessage
    \/ DestroyRoot
    \/ RunCreate
    \/ RunUpdateNested
    \/ RunRender
    \/ RunRendered
    \/ RunDestroy
    \/ LoopExit

SpecNested == Init /\ [][NextNested]_vars

TypeOK ==
    /\ running \in BOOLEAN
    /\ locks \in 0..1
    /\ nextId \in 1..(MaxMsgs + 1)
    /\ nextKid \in 1..(MaxKids + 1)

\* --------------------------------------- the revision in html/scope.rs
\* Scope::send_message_batch (html/scope.rs) schedules the batch without
\* looking at its length; Scope::update is the same push as Link::update.
Scope_send_message_batch(w, c, ms) == Link_update(w, c, MessageBatch(ms))

ScopeSendMessageBatch ==
    /\ pc = "mounted" /\ ~running
    /\ \E c \in Comps, n \in 0..MaxBatch :
          /\ Linked(c)
          /\ nextId + n <= MaxMsgs + 1
          /\ \E bs \in [1..n -> BOOLEAN] :
                Called("send_message_batch", [i \in 1..n |-> nextId + i - 1],
                       Scope_send_message_batch([W EXCEPT !.nextId = @ + n], c,
                                                BatchOf(bs)))
    /\ UNCHANGED <<pc, destroys>>

NextScope ==
    \/ MountBegin
    \/ MountFinish
    \/ SendMessage
    \/ ScopeSendMessageBatch
    \/ DestroyRoot
    \/ RunCreate
    \/ RunUpdate
    \/ RunRender
    \/ RunRendered
    \/ RunDestroy
    \/ LoopExit

SpecScope == Init /\ [][NextScope]_vars

\* ================================== the virtual DOM of virtual_dom/internal
NoNode == 0

\* A node under the parent element: its identity and its text.
DomNode(n, s) == [id |-> n, text |-> s]

\* enum VNode: the kinds that stand for at most one node, and the fragment.
VText(s) ==
    [k |-> "Text", text |-> s, reference |-> NoNode,
     no_siblings |-> FALSE, children |-> <<>>]

VRef(n) ==
    [k |-> "Ref", text |-> "#node", reference |-> n,
     no_siblings |-> FALSE, children |-> <<>>]

VList(ns, ch) ==
    [k |-> "List", text |-> "", reference |-> NoNode,
     no_siblings |-> ns, children |-> ch]

\* The parent element as one diff threads it: its child nodes, every node
\* identity seen so far, the pairings the fragments made, a failed expect(),
\* the number of nodes taken out of it or put into it.
D == [children |-> dom.children, panic |-> dom.panic, log |-> <<>>,
      used |-> {dom.children[i].id : i \in DOMAIN dom.children}, moved |-> 0]

Ids(s) == {s[i].id : i \in DOMAIN s}
IndexOf(s, n) == CHOOSE i \in DOMAIN s : s[i].id = n
Without(s, n) == SelectSeq(s, LAMBDA e : e.id # n)

\* INode::next_sibling
next_sibling(s, n) ==
    IF n \in Ids(s) /\ IndexOf(s, n) < Len(s) THEN s[IndexOf(s, n) + 1].id ELSE NoNode

\* INode::remove_child(..).expect(..): fails for a node that is no child.
remove_child(w, n) ==
    IF w.panic THEN w
    ELSE IF n \in Ids(w.children)
    THEN [w EXCEPT !.children = Without(@, n), !.moved = @ + 1]
    ELSE [w EXCEPT !.panic = TRUE]

\* INode::insert_before(..).expect(..): moves e in front of sib; fails when
\* sib is no child; in front of itself a node stays where it is.
insert_before(w, e, sib) ==
    IF w.panic THEN w
    ELSE IF sib \notin Ids(w.children) THEN [w EXCEPT !.panic = TRUE]
    ELSE IF sib = e.id THEN w
    ELSE LET s == Without(w.children, e.id)
             i == IndexOf(s, sib)
         IN [w EXCEPT !.children = SubSeq(s, 1, i - 1) \o <<e>> \o SubSeq(s, i, Len(s)),
                      !.used = @ \cup {e.id}, !.moved = @ + 1]

\* INode::append_child: e becomes the last child.
append_child(w, e) ==
    IF w.panic THEN w
    ELSE [w EXCEPT !.children = Without(@, e.id) \o <<e>>, !.used = @ \cup {e.id},
                   !.moved = @ + 1]

\* INode::set_node_value
set_node_value(w, n, s) ==
    IF w.panic \/ n \notin Ids(w.children) THEN w
    ELSE [w EXCEPT !.children[IndexOf(w.children, n)].text = s]

\* document().create_text_node: a node that has never been seen.
create_text_node(w) ==
    CHOOSE n \in (MaxRefs + 1)..(MaxRefs + Cardinality(w.used) + 1) :
        /\ n \notin w.used
        /\ \A m \in (MaxRefs + 1)..(n - 1) : m \in w.used

Logged(w, e) == [w EXCEPT !.log = Append(@, e)]

\* The outcome of a detach: the parent afterwards and the sibling returned.
Detached(w, n) == [w |-> w, node |-> n]

\* VText::detach: the text node leaves the parent, its next sibling is returned.
VText_detach(w, self) ==
    Detached(remove_child(w, self.reference), next_sibling(w.children, self.reference))

RECURSIVE VNode_detach(_, _)
RECURSIVE VList_detach(_, _, _, _)

\* VList::detach: every child is detached, the last child's answer is returned.
VList_detach(w, ch, i, last_sibling) ==
    IF i > Len(ch) THEN Detached(w, last_sibling)
    ELSE LET r == VNode_detach(w, ch[i])
         IN VList_detach(r.w, ch, i + 1, r.node)

\* VNode::detach
VNode_detach(w, self) ==
    CASE self.k = "List" -> VList_detach(w, self.children, 1, NoNode)
      [] self.k = "Text" -> VText_detach(w, self)
      [] self.k = "Ref" ->
            Detached(remove_child(w, self.reference),
                     next_sibling(w.children, self.reference))

\* The outcome of an apply: the parent, the node returned, the applied vnode.
Applied(w, n, self) == [w |-> w, node |-> n, self |-> self]

\* The ancestor of an apply is always removed unless it is reused.
DetachAncestor(w, ancestor) ==
    IF IsSome(ancestor) THEN VNode_detach(w, Unwrap(ancestor)) ELSE Detached(w, NoNode)

\* Reform::Before(before): the new node goes in front of the sibling the
\* ancestor left behind, else behind the previous sibling, else to the end.
Reform_Before(w, e, before, previous_sibling) ==
    IF before # NoNode THEN insert_before(w, e, before)
    ELSE LET precursor == IF previous_sibling = NoNode THEN NoNode
                          ELSE next_sibling(w.children, previous_sibling)
         IN IF precursor # NoNode THEN insert_before(w, e, precursor)
            ELSE append_child(w, e)

\* VText::apply: a text ancestor keeps its node (Reform::Keep) and takes the
\* new text; any other ancestor is detached and a new text node is created.
VText_apply(w, self, previous_sibling, ancestor) ==
    IF IsSome(ancestor) /\ Unwrap(ancestor).k = "Text"
    THEN LET a == Unwrap(ancestor)
         IN Applied(IF a.text # self.text
                    THEN set_node_value(w, a.reference, self.text) ELSE w,
                    a.reference, [self EXCEPT !.reference = a.reference])
    ELSE LET d == DetachAncestor(w, ancestor)
             n == create_text_node(d.w)
         IN Applied(Reform_Before(d.w, DomNode(n, self.text), d.node, previous_sibling),
                    n, [self EXCEPT !.reference = n])

\* VNode::apply, VRef: the ancestor is detached, the node goes in front of
\* the sibling the ancestor left behind, else to the end of the parent.
VRef_apply(w, self, previous_sibling, ancestor) ==
    LET d == DetachAncestor(w, ancestor)
        e == DomNode(self.reference, self.text)
    IN Applied(IF d.node # NoNode THEN insert_before(d.w, e, d.node)
               ELSE append_child(d.w, e),
               self.reference, self)

\* VList::apply, lines 69-81: the ancestor's children, a non-list ancestor
\* counting as a list of one.
Rights_listonly(ancestor) ==
    IF IsSome(ancestor) /\ Unwrap(ancestor).k = "List"
    THEN Unwrap(ancestor).children ELSE <<>>

Rights(ancestor) ==
    IF ~IsSome(ancestor) THEN <<>>
    ELSE IF Unwrap(ancestor).k = "List" THEN Unwrap(ancestor).children
    ELSE <<Unwrap(ancestor)>>

\* VList::apply, lines 83-90: an empty fragment with siblings gets an empty
\* text node to stake out its place.
Lefts_bare(self) == self.children

Lefts(self) ==
    IF self.children = <<>> /\ ~self.no_siblings
    THEN <<VText("")>> ELSE self.children

RECURSIVE VNode_apply(_, _, _, _, _)
RECURSIVE VList_loop(_, _, _, _, _, _)

\* VList::apply, lines 92-118: lefts and rights advance together; at is the
\* place of the fragment in the tree.
VList_loop(w, lefts, rights, i, previous_sibling, at) ==
    IF i > Len(lefts) /\ i > Len(rights)
    THEN [w |-> w, node |-> previous_sibling, lefts |-> lefts]
    ELSE IF i <= Len(lefts)
    THEN LET right == IF i <= Len(rights) THEN Some(rights[i]) ELSE None
             r == VNode_apply(Logged(w, [at |-> at, op |-> "apply", left |-> i,
                                         right |-> IF IsSome(right) THEN i ELSE 0]),
                              lefts[i], previous_sibling, right, Append(at, i))
         IN VList_loop(r.w, [lefts EXCEPT ![i] = r.self], rights, i + 1, r.node, at)
    ELSE LET r == VNode_detach(Logged(w, [at |-> at, op |-> "detach", left |-> 0,
                                          right |-> i]),
                               rights[i])
         IN VList_loop(r.w, lefts, rights, i + 1, previous_sibling, at)

\* VList::apply
VList_apply(w, self, previous_sibling, ancestor, at) ==
    LET r == VList_loop(w, Lefts(self), Rights(ancestor), 1, previous_sibling, at)
    IN Applied(r.w, r.node, [self EXCEPT !.children = r.lefts])

\* VNode::apply
VNode_apply(w, self, previous_sibling, ancestor, at) ==
    CASE self.k = "List" -> VList_apply(w, self, previous_sibling, ancestor, at)
      [] self.k = "Text" -> VText_apply(w, self, previous_sibling, ancestor)
      [] self.k = "Ref" -> VRef_apply(w, self, previous_sibling, ancestor)

\* ----------------------------------------------- the frames rendered
Leaves == {VText("x")} \cup {VRef(n) : n \in 1..MaxRefs}

\* A node handed over by reference stands at one place of a frame.
LeafSeqs ==
    {ch \in UNION {[1..n -> Leaves] : n \in 0..MaxLen} :
        \A i, j \in DOMAIN ch : (i # j /\ ch[i].k = "Ref") => ch[i] # ch[j]}

\* The children of a fragment: leaves, the last one possibly an empty
\* fragment built by VList::new.
Fragments ==
    LeafSeqs \cup {Append(ch, VList(ns, <<>>)) :
                      ch \in {c \in LeafSeqs : Len(c) < MaxLen}, ns \in BOOLEAN}

\* A frame: the children of the parent element, a fragment without siblings
\* of its own, holding "A", then a node or a fragment or nothing, then "B".
Frame(a, m, b) ==
    VList(TRUE, (IF a THEN <<VText("A")>> ELSE <<>>) \o m
                \o (IF b THEN <<VText("B")>> ELSE <<>>))

Middles(a, b) ==
    {<<>>} \cup {<<l>> : l \in Leaves}
           \cup {<<VList(ns, ch)>> : ns \in {FALSE} \cup {~(a \/ b)}, ch \in Fragments}

Frames == {Frame(a, m, b) : a \in BOOLEAN, b \in BOOLEAN, m \in Middles(TRUE, TRUE)}
            \cup {Frame(FALSE, m, FALSE) : m \in Middles(FALSE, FALSE)}

\* Nodes are told apart by identity alone: after a diff the text nodes are
\* numbered as they stand under the parent.
TextIds(s) == SelectSeq([i \in DOMAIN s |-> s[i].id], LAMBDA n : n > MaxRefs)

NodeName(order, n) ==
    IF n <= MaxRefs THEN n
    ELSE IF \E i \in DOMAIN order : order[i] = n
    THEN MaxRefs + (CHOOSE i \in DOMAIN order : order[i] = n)
    ELSE MaxRefs + Len(order) + 1

RECURSIVE NamedTree(_, _)
NamedTree(order, v) ==
    [k |-> v.k, text |-> v.text, reference |-> NodeName(order, v.reference),
     no_siblings |-> v.no_siblings,
     children |-> [i \in DOMAIN v.children |-> NamedTree(order, v.children[i])]]

NamedNodes(order, s) == [i \in DOMAIN s |-> DomNode(NodeName(order, s[i].id), s[i].text)]

\* A frame is applied to the parent over the frame rendered before.
Diff(frame) == VNode_apply(D, frame, NoNode, dom.root, <<>>)

\* One frame is rendered into the parent over the frame rendered before.
RenderFrame ==
    /\ ~dom.panic
    /\ \E frame \in Frames :
          \E r \in {Diff(frame)} :
             \E order \in {TextIds(r.w.children)} :
                dom' = [root |-> Some(NamedTree(order, r.self)),
                        children |-> NamedNodes(order, r.w.children),
                        panic |-> r.w.panic]
    /\ UNCHANGED <<q, running, locks, state, surf, nextId, nextKid, pc, call,
                   destroys, hist, last, refs, ctx, fc, cell>>

NextDom == RenderFrame

SpecDom == Init /\ [][NextDom]_vars

RECURSIVE Owned(_)
RECURSIVE OwnedFrom(_, _)

\* The nodes a vnode owns under the parent, in the order of the tree.
OwnedFrom(ch, i) ==
    IF i > Len(ch) THEN <<>> ELSE Owned(ch[i]) \o OwnedFrom(ch, i + 1)

Owned(v) ==
    IF v.k = "List" THEN OwnedFrom(v.children, 1)
    ELSE IF v.reference = NoNode THEN <<>> ELSE <<v.reference>>

NodeIds(s) == [i \in DOMAIN s |-> s[i].id]
NodeTexts(s) == [i \in DOMAIN s |-> s[i].text]

\* The frame [A, fragment of ch, B].
ABFrame(ch) == Frame(TRUE, <<VList(FALSE, ch)>>, TRUE)

\* =================== the context provider search of use_context_hook.rs
\* The component types: two context providers and a component that is none.
TypeIds == {"ProviderA", "ProviderB", "Consumer"}
Providers == {"ProviderA", "ProviderB"}

\* Link::new stores the parent's link: link 1 has none, every other link
\* has a parent that was mounted before it.
Parents ==
    {p \in [1..MaxLinks -> 0..(MaxLinks - 1)] :
        p[1] = 0 /\ \A i \in 2..MaxLinks : p[i] \in 1..(i - 1)}

\* A search: the tree, the type of every link, the link it starts from
\* and the context provider type asked for.
Searches ==
    {[parent |-> p, type_id |-> t, link |-> l, T |-> T, done |-> FALSE,
      found |-> 0, downcast |-> {}, panic |-> FALSE] :
        p \in Parents, t \in [1..MaxLinks -> TypeIds], l \in 1..MaxLinks,
        T \in Providers}

\* AnyLink::get_parent (0 stands for None)
get_parent(link) == ctx.parent[link]

\* AnyLink::get_type_id
get_type_id(link) == ctx.type_id[link]

\* AnyLink::from: the state cell behind the link is the cell of the
\* component type the link was made for.
StateType(link) == ctx.type_id[link]

\* AnyLink::downcast: expect() fails on a state cell of another type.
AnyLink_downcast(r, link, COMP) ==
    IF StateType(link) = COMP
    THEN [r EXCEPT !.found = link, !.downcast = @ \cup {link}]
    ELSE [r EXCEPT !.panic = TRUE, !.downcast = @ \cup {link}]

\* A search that takes every link for a provider
Selected_any(link, expected_type_id) == TRUE

\* the closure of filter(): the link is of the type asked for
Selected(link, expected_type_id) == get_type_id(link) = expected_type_id

RECURSIVE find_context_provider_link(_, _, _)
\* find_context_provider_link: successors() walks up from the link, next()
\* pulls links through filter() until one passes, and only that one is
\* cloned and downcast.
find_context_provider_link(r, link, T) ==
    IF link = 0 THEN r
    ELSE IF Selected(link, T) THEN AnyLink_downcast(r, link, T)
    ELSE find_context_provider_link(r, get_parent(link), T)

FindProvider ==
    /\ ~ctx.done
    /\ ctx' = [find_context_provider_link(ctx, ctx.link, ctx.T) EXCEPT !.done = TRUE]
    /\ UNCHANGED <<q, running, locks, state, surf, nextId, nextKid, pc, call,
                   destroys, hist, last, dom, refs, fc, cell>>

InitCtx == Unmounted /\ ctx \in Searches /\ cell = NoCell

NextCtx == FindProvider

SpecCtx == InitCtx /\ [][NextCtx]_vars

RECURSIVE ChainOf(_)
\* The link and its ancestors, nearest first.
ChainOf(link) == IF link = 0 THEN <<>> ELSE <<link>> \o ChainOf(ctx.parent[link])

\* ========================= the function component of yew-functional
\* The dependencies handed to use_effect_with_deps by one call of view().
Deps == 0..MaxProp

\* type Msg: the closure a hook hands to process_message; view is the call
\* of view() that made it (0: none), hook is 1 for use_effect, 2 for
\* use_effect_with_deps, and render says whether the closure asks for one.
FcMsg(k, hook, view, deps, render) ==
    [k |-> k, hook |-> hook, view |-> view, deps |-> deps, render |-> render]

FcFirst == FcMsg("First", 0, 0, 0, TRUE)

\* What the component and its hooks did, in order.
FcLog(f, e, hook, view, deps) ==
    [f EXCEPT !.log = Append(@, [e |-> e, hook |-> hook, view |-> view, deps |-> deps])]

\* HookUpdater::post_render: process_message(msg, true) pushes the closure
\* on the component's message queue.
HookUpdater_post_render(f, m) == [f EXCEPT !.message_queue = Append(@, m)]

\* HookUpdater::callback: process_message(msg, false) is link.send_message.
HookUpdater_callback(f, m) == [f EXCEPT !.updates = Append(@, m)]

\* UseEffect::runner: the callback is kept unless one is waiting, and the
\* closure is registered for after the render.
UseEffect_runner(f, n, d) ==
    HookUpdater_post_render(
        IF f.effect.callback = 0 THEN [f EXCEPT !.effect.callback = n] ELSE f,
        FcMsg("post", 1, n, d, FALSE))

\* The closure of UseEffect::runner.
UseEffect_post(f, m) ==
    LET f1 == IF f.effect.destructor # 0
              THEN FcLog([f EXCEPT !.effect.destructor = 0], "destructor", 1,
                         f.effect.destructor, 0)
              ELSE f
    IN IF f1.effect.callback # 0
       THEN FcLog([f1 EXCEPT !.effect.destructor = f1.effect.callback,
                             !.effect.callback = 0],
                  "effect", 1, f1.effect.callback, 0)
       ELSE f1

\* use_hook: the first call of view() makes the state of the hook with the
\* initializer of use_effect_with_deps, later calls find it.
use_hook(f, d) ==
    IF f.hooks THEN f ELSE [f EXCEPT !.hooks = TRUE, !.deps = d, !.destructor = 0]

\* UseEffectDeps::runner registers its closure for after the render.
UseEffectDeps_runner(f, n, d) ==
    HookUpdater_post_render(use_hook(f, d), FcMsg("post", 2, n, d, FALSE))

\* A closure that takes every render for a change of the dependencies
DepsDiffer_always(old, new) == TRUE

\* state.deps != deps
DepsDiffer(old, new) == old # new

\* The closure of UseEffectDeps::runner.
UseEffectDeps_post(f, m) ==
    LET f0 == FcLog(f, "post", 2, m.view, m.deps) IN
    IF DepsDiffer(f0.deps, m.deps)
    THEN LET f1 == IF f0.destructor # 0
                   THEN FcLog([f0 EXCEPT !.destructor = 0], "destructor", 2,
                              f0.destructor, f0.deps)
                   ELSE f0
         IN [FcLog(f1, "effect", 2, m.view, m.deps)
                EXCEPT !.deps = m.deps, !.destructor = m.view]
    ELSE IF f0.destructor = 0
    THEN [FcLog(f0, "effect", 2, m.view, f0.deps) EXCEPT !.destructor = m.view]
    ELSE f0

\* FunctionComponent::view: the function runs its hooks in order.
FunctionComponent_view(f, d) ==
    LET n == f.views + 1
        f1 == FcLog([f EXCEPT !.views = n], "view", 0, n, d)
    IN UseEffectDeps_runner(UseEffect_runner(f1, n, d), n, d)

\* FunctionComponent::rendered: the message queue is drained into the link.
FunctionComponent_rendered(f, view) ==
    [FcLog(f, "rendered", 0, view, 0)
        EXCEPT !.updates = @ \o f.message_queue, !.message_queue = <<>>]

\* FunctionComponent::update: msg()
FunctionComponent_update(f, m) ==
    IF m.k = "post" THEN IF m.hook = 1 THEN UseEffect_post(f, m)
                         ELSE UseEffectDeps_post(f, m)
    ELSE FcLog(f, "callback", 0, 0, 0)

\* FunctionComponent::destroy: the destroy listeners call tear_down of
\* every hook.
FunctionComponent_destroy(f) ==
    LET f0 == FcLog(f, "destroy", 0, 0, 0)
        f1 == IF f0.effect.destructor # 0
              THEN FcLog([f0 EXCEPT !.effect.destructor = 0], "destructor", 1,
                         f0.effect.destructor, 0)
              ELSE f0
    IN IF f1.destructor # 0
       THEN FcLog([f1 EXCEPT !.destructor = 0], "destructor", 2, f1.destructor, f1.deps)
       ELSE f1

FcTask(first_render, view) == [first_render |-> first_render, view |-> view]

\* UpdateComponent::run for the function component.
Fc_Update_run(f, m, d) ==
    IF f.phase # "live" THEN f
    ELSE IF f.new_root # 0 THEN [f EXCEPT !.pending = Append(@, m)]
    ELSE LET f1 == IF m.k = "First" THEN f ELSE FunctionComponent_update(f, m)
         IN IF m.render
            THEN LET f2 == FunctionComponent_view(f1, d)
                 IN [f2 EXCEPT !.new_root = f2.views,
                               !.render = Append(@, FcTask(m.k = "First", f2.views))]
            ELSE f1

\* RenderComponent::run for the function component.
Fc_Render_run(f, t) ==
    IF f.phase # "live" THEN f
    ELSE IF ~t.first_render /\ f.last_root = 0 THEN f
    ELSE IF f.new_root = 0 THEN f
    ELSE [f EXCEPT !.last_root = f.new_root, !.new_root = 0,
                   !.rendered = Append(@, t)]

\* RenderedComponent::run for the function component.
Fc_Rendered_run(f, t) ==
    IF f.phase # "live" THEN f
    ELSE IF ~t.first_render /\ ~f.has_rendered THEN f
    ELSE LET f1 == FunctionComponent_rendered([f EXCEPT !.has_rendered = TRUE], t.view)
         IN [f1 EXCEPT !.updates = @ \o f1.pending, !.pending = <<>>]

\* DestroyComponent::run for the function component.
Fc_Destroy_run(f) ==
    IF f.phase # "live" THEN f
    ELSE [FunctionComponent_destroy(f) EXCEPT !.phase = "destroyed"]

FcUnchanged ==
    UNCHANGED <<q, running, locks, state, surf, nextId, nextKid, pc, call,
                destroys, hist, last, dom, refs, ctx, cell>>

\* The component is mounted: Create and the First update are scheduled.
FcMount ==
    /\ fc.phase = "unmounted"
    /\ fc' = [fc EXCEPT !.phase = "live", !.updates = <<FcFirst>>]
    /\ FcUnchanged

\* Another component's task calls a callback a hook of the component made
\* with HookUpdater::callback; the closure may ask for a render.
FcCallback ==
    /\ fc.phase = "live" /\ fc.calls < MaxCalls
    /\ \E r \in BOOLEAN :
          fc' = HookUpdater_callback([fc EXCEPT !.calls = @ + 1],
                                     FcMsg("callback", 0, 0, 0, r))
    /\ FcUnchanged

FcRunUpdate ==
    /\ fc.updates # <<>>
    /\ \E d \in Deps :
          /\ (fc.phase # "live" \/ fc.new_root # 0 \/ ~Head(fc.updates).render) => d = 0
          /\ fc' = Fc_Update_run([fc EXCEPT !.updates = Tail(@)], Head(fc.updates), d)
    /\ FcUnchanged

FcRunRender ==
    /\ fc.updates = <<>> /\ fc.render # <<>>
    /\ fc' = Fc_Render_run([fc EXCEPT !.render = Tail(@)], Head(fc.render))
    /\ FcUnchanged

FcRunRendered ==
    /\ fc.updates = <<>> /\ fc.render = <<>> /\ fc.rendered # <<>>
    /\ fc' = Fc_Rendered_run([fc EXCEPT !.rendered = SubSeq(@, 1, Len(@) - 1)],
                             fc.rendered[Len(fc.rendered)])
    /\ FcUnchanged

\* The parent detaches the component: its Destroy task runs first.
FcDestroy ==
    /\ fc.phase = "live"
    /\ fc' = Fc_Destroy_run(fc)
    /\ FcUnchanged

NextHooks ==
    \/ FcMount
    \/ FcCallback
    \/ FcRunUpdate
    \/ FcRunRender
    \/ FcRunRendered
    \/ FcDestroy

SpecHooks == Init /\ [][NextHooks]_vars

\* The places of the log where e of the hook stands.
FcAt(e, hook) == {i \in DOMAIN fc.log : fc.log[i].e = e /\ fc.log[i].hook = hook}

\* No task of the component is left.
FcIdle == fc.updates = <<>> /\ fc.render = <<>> /\ fc.rendered = <<>>

\* ------------------------------------------------------- the state cell
\* One component and the RefCell its state lives in. The fields are those
\* the tasks branch on; trees are present or absent, pending_updates holds
\* the deferred updates.
CellState ==
    [new_root |-> FALSE, last_root |-> FALSE, has_rendered |-> FALSE,
     pending_updates |-> <<>>]

\* RefCell::borrow_mut: panics (already borrowed) while a guard is alive
borrow_mut(cl) ==
    IF cl.borrows > 0 THEN [cl EXCEPT !.panic = TRUE]
    ELSE [cl EXCEPT !.borrows = 1]

\* The guards of a task are dropped when run returns.
drop_guards(cl) == [cl EXCEPT !.borrows = 0]

\* scheduler().push_comp(kind, task) while the loop is running
CellPush(cl, kind, task) == [cl EXCEPT !.q[kind] = Append(@, task)]

\* The updates a link carries: the first one, and messages by what
\* update() will answer for them.
CellMsgs == {"MessageTrue", "MessageFalse"}

\* A callback of the task sends message s through its own link, or
\* nothing ("none").
CellCallback(cl, s) ==
    IF s \in CellMsgs THEN [CellPush(cl, "Update", s) EXCEPT !.sent = @ + 1]
    ELSE cl

\* Create: ComponentState::new calls create()
CreateArm(cl, s) ==
    IF cl.state = None
    THEN CellCallback([cl EXCEPT !.state = Some(CellState)], s)
    ELSE cl

\* Update: deferred while new_root is present, else update() or changed()
\* and, if that asks for it, view() and a Render task
UpdateArm(cl, u, s) ==
    IF cl.state = None THEN cl
    ELSE IF Unwrap(cl.state).new_root
    THEN [cl EXCEPT !.state[1].pending_updates = Append(@, u),
                    !.deferred = @ + 1]
    ELSE IF u \in {"First", "MessageTrue"}
    THEN CellPush(CellCallback([cl EXCEPT !.state[1].new_root = TRUE], s),
                  "Render", u = "First")
    ELSE CellCallback(cl, s)

\* Render: new_root is applied and becomes last_root, a Rendered task follows
RenderArm(cl, first_render) ==
    IF cl.state = None THEN cl
    ELSE IF ~first_render /\ ~Unwrap(cl.state).last_root THEN cl
    ELSE IF Unwrap(cl.state).new_root
    THEN CellPush([cl EXCEPT !.state[1].new_root = FALSE,
                             !.state[1].last_root = TRUE],
                  "Rendered", first_render)
    ELSE cl

\* A Rendered task that calls rendered() and replays nothing
RenderedArm_keep(cl, first_render, s) ==
    IF cl.state = None THEN cl
    ELSE IF ~first_render /\ ~Unwrap(cl.state).has_rendered THEN cl
    ELSE CellCallback([cl EXCEPT !.state[1].has_rendered = TRUE], s)

\* Rendered: rendered() and the replay of the deferred updates
RenderedArm(cl, first_render, s) ==
    IF cl.state = None THEN cl
    ELSE IF ~first_render /\ ~Unwrap(cl.state).has_rendered THEN cl
    ELSE LET c1 == CellCallback([cl EXCEPT !.state[1].has_rendered = TRUE], s)
         IN [c1 EXCEPT !.q.Update = @ \o Unwrap(cl.state).pending_updates,
                       !.state[1].pending_updates = <<>>]

\* Destroy: the state is taken out of the cell, destroy() and detach
DestroyArm(cl, s) ==
    IF cl.state = None THEN cl
    ELSE CellCallback([cl EXCEPT !.state = None], s)

\* The arm of task kind with argument arg
Arm(cl, kind, arg, s) ==
    CASE kind = "Create" -> CreateArm(cl, s)
      [] kind = "Update" -> UpdateArm(cl, arg, s)
      [] kind = "Render" -> RenderArm(cl, arg)
      [] kind = "Rendered" -> RenderedArm(cl, arg, s)
      [] kind = "Destroy" -> DestroyArm(cl, s)

\* ComponentRunnable::run of lifecycle.rs: current_state borrows the cell
\* for the whole call; the Create and Update arms work through it, the
\* Render, Rendered and Destroy arms call self.state.borrow_mut() again.
ComponentRunnable_run(cl, kind, arg, s) ==
    LET current_state == borrow_mut(cl)
        again == IF kind \in {"Render", "Rendered", "Destroy"}
                 THEN borrow_mut(current_state) ELSE current_state
    IN IF again.panic THEN drop_guards(again)
       ELSE drop_guards(Arm(again, kind, arg, s))

\* The runnables of link.rs: each run borrows the cell once.
Runnable_run(cl, kind, arg, s) ==
    LET state_ref == borrow_mut(cl)
    IN IF state_ref.panic THEN drop_guards(state_ref)
       ELSE drop_guards(Arm(state_ref, kind, arg, s))

CellUnchanged ==
    UNCHANGED <<q, running, locks, state, surf, nextId, nextKid, pc, call,
                destroys, hist, last, dom, refs, ctx, fc>>

\* The task the scheduler serves next: Destroy, Create, Update and Render
\* in push order, the Rendered stack last.
CellNextKind ==
    IF cell.q.Destroy # <<>> THEN "Destroy"
    ELSE IF cell.q.Create # <<>> THEN "Create"
    ELSE IF cell.q.Update # <<>> THEN "Update"
    ELSE IF cell.q.Render # <<>> THEN "Render"
    ELSE IF cell.q.Rendered # <<>> THEN "Rendered"
    ELSE "none"

\* The scheduler pops the next task, of kind, and runs it.
CellRun(kind) ==
    /\ CellNextKind = kind
    /\ LET qu == cell.q[kind]
           arg == IF kind = "Rendered" THEN qu[Len(qu)] ELSE Head(qu)
           rest == IF kind = "Rendered" THEN SubSeq(qu, 1, Len(qu) - 1)
                   ELSE Tail(qu)
           popped == [cell EXCEPT !.q[kind] = rest, !.ran = kind]
       IN \E s \in CellMsgs \cup {"none"} :
            /\ s \in CellMsgs => cell.sent < MaxSends
            /\ cell' = IF cell.impl = "lifecycle"
                       THEN ComponentRunnable_run(popped, kind, arg, s)
                       ELSE Runnable_run(popped, kind, arg, s)
    /\ CellUnchanged

CellRunCreate ==
    /\ ~cell.panic /\ CellNextKind = "Create"
    /\ CellRun("Create")
CellRunUpdate ==
    /\ ~cell.panic /\ CellNextKind = "Update"
    /\ CellRun("Update")
CellRunRender ==
    /\ ~cell.panic /\ CellNextKind = "Render"
    /\ CellRun("Render")
CellRunRendered ==
    /\ ~cell.panic /\ CellNextKind = "Rendered"
    /\ CellRun("Rendered")
CellRunDestroy ==
    /\ ~cell.panic /\ CellNextKind = "Destroy"
    /\ CellRun("Destroy")

\* mount_in_place: the Create task and the First update are pushed.
CellMount ==
    /\ cell.phase = "unmounted"
    /\ cell' = [cell EXCEPT !.phase = "mounted",
                            !.q.Create = <<"Create">>,
                            !.q.Update = <<"First">>]
    /\ CellUnchanged

\* Between two runs of the scheduler the driver sends a message.
CellSend ==
    /\ cell.phase = "mounted" /\ ~cell.panic /\ CellNextKind = "none"
    /\ cell.sent < MaxSends
    /\ \E m \in CellMsgs :
          cell' = [cell EXCEPT !.q.Update = <<m>>, !.sent = @ + 1,
                               !.ran = "none"]
    /\ CellUnchanged

\* Between two runs of the scheduler the driver destroys the component.
CellDestroy ==
    /\ cell.phase = "mounted" /\ ~cell.panic /\ CellNextKind = "none"
    /\ cell' = [cell EXCEPT !.phase = "destroyed", !.q.Destroy = <<"Destroy">>,
                            !.ran = "none"]
    /\ CellUnchanged

InitCell ==
    /\ Unmounted /\ ctx = NoCtx
    /\ cell \in {[NoCell EXCEPT !.impl = i] : i \in {"lifecycle", "link"}}

NextCell ==
    \/ CellMount
    \/ CellSend
    \/ CellDestroy
    \/ CellRunCreate
    \/ CellRunUpdate
    \/ CellRunRender
    \/ CellRunRendered
    \/ CellRunDestroy

SpecCell == InitCell /\ [][NextCell]_vars

\* The runnables of link.rs under a scheduler whose loop does not stop
\* while a task is queued (Scheduler::start).
CellProgress ==
    \/ CellRunCreate \/ CellRunUpdate \/ CellRunRender \/ CellRunRendered
    \/ CellRunDestroy

SpecCellLive == Init /\ [][NextCell]_vars /\ WF_vars(CellProgress)

\* ---------------------------------- the component of html/scope.rs
\* The revision in html/scope.rs keeps the place of a component in
\* ComponentState::position and lets Scope::render schedule the Render
\* tasks. One component of it lives in cell; a tree is the number of the
\* view() that made it, 0 stands for none.
ScopeState ==
    [position |-> FALSE, last_root |-> 0, new_root |-> 0,
     has_rendered |-> FALSE, pending_updates |-> <<>>]

NoScope ==
    [phase |-> "new", state |-> None, surface |-> 0, views |-> 0, applied |-> 0,
     q |-> [Destroy |-> <<>>, Create |-> <<>>, Update |-> <<>>, Expand |-> <<>>,
            Render |-> <<>>, Rendered |-> <<>>],
     sent |-> 0, renders |-> 0, panic |-> FALSE, ran |-> "none"]

\* CreateComponent::run
ScopeCreate_run(cl) ==
    IF cl.state = None THEN [cl EXCEPT !.state = Some(ScopeState)] ELSE cl

\* ExpandComponent::run: panics without a new_root
ScopeExpand_run(cl) ==
    IF cl.state = None \/ Unwrap(cl.state).new_root # 0 THEN cl
    ELSE [cl EXCEPT !.panic = TRUE]

\* UpdateComponent::run: the First update expands on the spot, a message
\* that asks for a render schedules an Expand and a Render task
ScopeUpdate_run(cl, u) ==
    IF cl.state = None THEN cl
    ELSE IF Unwrap(cl.state).new_root # 0
    THEN [cl EXCEPT !.state[1].pending_updates = Append(@, u)]
    ELSE IF u \in {"First", "MessageTrue"}
    THEN LET c1 == [cl EXCEPT !.state[1].new_root = cl.views + 1,
                              !.views = @ + 1]
         IN IF u = "First" THEN ScopeExpand_run(c1)
            ELSE CellPush(CellPush(c1, "Expand", "Expand"), "Render", FALSE)
    ELSE cl

\* A Render task that forgets to keep the tree it applied
ScopeRender_run_forget(cl, first_render) ==
    IF cl.state = None THEN cl
    ELSE LET s == Unwrap(cl.state) IN
      IF ~first_render /\ s.last_root = 0 THEN cl
      ELSE IF s.new_root # 0
      THEN IF s.position
           THEN CellPush([cl EXCEPT !.state[1].new_root = 0,
                                    !.state[1].last_root = 0,
                                    !.surface = s.new_root,
                                    !.applied = @ + 1],
                         "Rendered", first_render)
           ELSE [cl EXCEPT !.state[1].new_root = 0, !.state[1].last_root = 0]
      ELSE cl

\* RenderComponent::run
ScopeRender_run(cl, first_render) ==
    IF cl.state = None THEN cl
    ELSE LET s == Unwrap(cl.state) IN
      IF ~first_render /\ s.last_root = 0 THEN cl
      ELSE IF s.new_root # 0
      THEN IF s.position
           THEN CellPush([cl EXCEPT !.state[1].new_root = 0,
                                    !.state[1].last_root = s.new_root,
                                    !.surface = s.new_root,
                                    !.applied = @ + 1],
                         "Rendered", first_render)
           ELSE [cl EXCEPT !.state[1].new_root = 0, !.state[1].last_root = 0]
      ELSE cl

\* RenderedComponent::run
ScopeRendered_run(cl, first_render) ==
    IF cl.state = None THEN cl
    ELSE IF ~first_render /\ ~Unwrap(cl.state).has_rendered THEN cl
    ELSE [cl EXCEPT !.state[1].has_rendered = TRUE,
                    !.q.Update = @ \o Unwrap(cl.state).pending_updates,
                    !.state[1].pending_updates = <<>>]

\* DestroyComponent::run
ScopeDestroy_run(cl) ==
    IF cl.state = None THEN cl
    ELSE LET s == Unwrap(cl.state)
         IN [cl EXCEPT !.state = None,
                       !.surface = IF s.last_root # 0 /\ s.position THEN 0 ELSE @]

\* The task served next; Expand tasks go before Render tasks.
ScopeNextKind ==
    IF cell.q.Destroy # <<>> THEN "Destroy"
    ELSE IF cell.q.Create # <<>> THEN "Create"
    ELSE IF cell.q.Update # <<>> THEN "Update"
    ELSE IF cell.q.Expand # <<>> THEN "Expand"
    ELSE IF cell.q.Render # <<>> THEN "Render"
    ELSE IF cell.q.Rendered # <<>> THEN "Rendered"
    ELSE "none"

\* The argument of the task served next, and the cell once it is popped.
ScopeNextTask ==
    LET qu == cell.q[ScopeNextKind]
    IN IF ScopeNextKind = "Rendered" THEN qu[Len(qu)] ELSE Head(qu)

ScopePopped ==
    LET k == ScopeNextKind
        qu == cell.q[k]
    IN [cell EXCEPT !.q[k] = IF k = "Rendered" THEN SubSeq(qu, 1, Len(qu) - 1)
                             ELSE Tail(qu),
                    !.ran = k]

ScopeRunCreate ==
    /\ ~cell.panic /\ ScopeNextKind = "Create"
    /\ cell' = ScopeCreate_run(ScopePopped)
    /\ CellUnchanged

ScopeRunUpdate ==
    /\ ~cell.panic /\ ScopeNextKind = "Update"
    /\ cell' = ScopeUpdate_run(ScopePopped, ScopeNextTask)
    /\ CellUnchanged

ScopeRunExpand ==
    /\ ~cell.panic /\ ScopeNextKind = "Expand"
    /\ cell' = ScopeExpand_run(ScopePopped)
    /\ CellUnchanged

ScopeRunRender ==
    /\ ~cell.panic /\ ScopeNextKind = "Render"
    /\ cell' = ScopeRender_run(ScopePopped, ScopeNextTask)
    /\ CellUnchanged

ScopeRunRendered ==
    /\ ~cell.panic /\ ScopeNextKind = "Rendered"
    /\ cell' = ScopeRendered_run(ScopePopped, ScopeNextTask)
    /\ CellUnchanged

ScopeRunDestroy ==
    /\ ~cell.panic /\ ScopeNextKind = "Destroy"
    /\ cell' = ScopeDestroy_run(ScopePopped)
    /\ CellUnchanged

\* Scope::create: the Create task and the First update are pushed.
Scope_create ==
    /\ cell.phase = "new"
    /\ cell' = [cell EXCEPT !.phase = "created", !.q.Create = <<"Create">>,
                            !.q.Update = <<"First">>]
    /\ CellUnchanged

\* Scope::render: the place is stored if the state exists, and a Render
\* task pushed that counts as the first one if no tree was applied yet.
Scope_render ==
    /\ cell.phase = "created" /\ ~cell.panic /\ cell.renders < MaxRenders
    /\ LET c1 == IF IsSome(cell.state)
                 THEN [cell EXCEPT !.state[1].position = TRUE] ELSE cell
           first_render == IsSome(cell.state) /\ Unwrap(cell.state).last_root = 0
       IN cell' = [CellPush(c1, "Render", first_render)
                     EXCEPT !.renders = @ + 1, !.ran = "none"]
    /\ CellUnchanged

\* Scope::send_message
Scope_send_message ==
    /\ cell.phase = "created" /\ ~cell.panic /\ cell.sent < MaxSends
    /\ \E m \in CellMsgs :
          cell' = [CellPush(cell, "Update", m) EXCEPT !.sent = @ + 1,
                                                      !.ran = "none"]
    /\ CellUnchanged

\* Scope::destroy
Scope_destroy ==
    /\ cell.phase = "created" /\ ~cell.panic
    /\ cell' = [CellPush(cell, "Destroy", "Destroy") EXCEPT !.phase = "destroyed",
                                                            !.ran = "none"]
    /\ CellUnchanged

InitScopeRender == Unmounted /\ ctx = NoCtx /\ cell = NoScope

NextScopeRender ==
    \/ Scope_create
    \/ Scope_render
    \/ Scope_send_message
    \/ Scope_destroy
    \/ ScopeRunCreate
    \/ ScopeRunUpdate
    \/ ScopeRunExpand
    \/ ScopeRunRender
    \/ ScopeRunRendered
    \/ ScopeRunDestroy

SpecScopeRender == InitScopeRender /\ [][NextScopeRender]_vars

\* ================================================================ claims
UpdateIds(calls) ==
    SelectSeq(calls, LAMBDA e : e[1] = "update")
BatchIds(ms) == [i \in DOMAIN ms |-> <<"update", ms[i].id>>]
Processed == last.kind = "Update" /\ last.live /\ ~last.inwin

\* C1: render-in-flight exclusion.  From the Update task that stored the
\* tree returned by view() until rendered() has been called for it, an
\* Update task of the same (live) component calls none of update(),
\* changed(), view() and only appends itself to pending_updates.
C1_RenderInFlightExclusion ==
    (last.kind = "Update" /\ last.live /\ last.pre.inflight) =>
        /\ Names(last.calls) \cap {"update", "changed", "view"} = {}
        /\ IsSome(state[last.task.comp])
        /\ Len(Unwrap(state[last.task.comp]).pending_updates) = last.pending + 1

\* C2: per-component FIFO.  Message ids grow in the order of sending, so
\* every message passed to update() has a larger id than all messages the
\* component's update() has seen before.
C2_PerComponentFifo ==
    \A i \in DOMAIN last.calls :
        last.calls[i][1] = "update" =>
            /\ last.calls[i][2] > last.pre.maxUpd
            /\ \A j \in 1..(i - 1) :
                  last.calls[j][1] = "update" => last.calls[j][2] < last.calls[i][2]

\* C3: stale tasks are no-ops.  An Update, Render or Rendered task that
\* runs after a Destroy task of its component has run calls no callback
\* and changes neither component state, surface nor queues.
C3_StaleTasksAreNoOps ==
    (last.kind \in {"Update", "Render", "Rendered"} /\ last.pre.destroyRan) =>
        /\ last.calls = <<>>
        /\ ~last.effect
        /\ state[last.task.comp] = None

\* a Rendered task that was queued before the destroy, and a stale Update
C3_Witness ==
    /\ last.kind = "Rendered" /\ last.pre.destroyRan /\ last.pre.created = 1

C6_CreateOnceFirstUpdateFirst ==
    /\ \A c \in Comps : hist[c].created <= 1
    /\ (~running /\ pc = "mounted") =>
          \A c \in Comps : Linked(c) => hist[c].created = 1
    /\ (Processed /\ last.task.update.t = "First") =>
          /\ last.calls # <<>>
          /\ last.calls[1] = <<"view", 0>>
          /\ Names(last.calls) \cap {"update", "changed"} = {}
    /\ (last.kind = "Update"
        /\ Names(last.calls) \cap {"update", "changed"} # {}) => last.pre.firstDone

\* the First update of a child has been processed
C6_Witness ==
    /\ Processed /\ last.task.update.t = "First" /\ last.task.comp \in Kids
    /\ hist[Root].maxUpd > 0

\* C7: mount locking window.  No task runs between the push of the Create
\* task and the push of the First update: while the driver stands between
\* the two the loop is not running and create() has not been called, and
\* whenever create() runs the First update is in the queue.
C7_MountLockingWindow ==
    /\ pc = "create_pushed" => (~running /\ hist[Root].created = 0
                                /\ q.Create = <<CreateComponent(Root, 0, None, NoRef, NoRef)>>)
    /\ (last.kind = "Create" /\ "create" \in Names(last.calls)) => last.firstq

\* the root was mounted with the scheduler idle and its create() has run
C7_Witness ==
    /\ last.kind = "Create" /\ last.task.comp = Root
    /\ "create" \in Names(last.calls) /\ call.api = "mount_in_place"

\* C8: batch coalescing.  A processed MessageBatch passes every message to
\* update(), in batch order, whatever the earlier results were, and then
\* calls view() once if some result was true and not at all otherwise.
C8_BatchCoalescing ==
    (Processed /\ last.task.update.t = "MessageBatch") =>
        /\ UpdateIds(last.calls) = BatchIds(last.task.update.ms)
        /\ Count(last.calls, "view") = IF AnyTrue(last.task.update.ms) THEN 1 ELSE 0
        /\ Count(last.calls, "changed") = 0

\* a batch whose first message asked for a render and whose second did not
C8_Witness ==
    /\ Processed /\ last.task.update.t = "MessageBatch"
    /\ Len(last.task.update.ms) = 2
    /\ last.task.update.ms[1].r /\ ~last.task.update.ms[2].r
    /\ Count(last.calls, "update") = 2 /\ Count(last.calls, "view") = 1

C10_EmptyBatchIsNoOp ==
    call.api = "send_message_batch" =>
        IF call.ids = <<>>
        THEN call.pushed = 0 /\ call.done /\ ~call.ran
        ELSE call.pushed = 1

\* C11: rendered() is fired exactly once per applied render.  rendered()
\* is never called more often than trees were applied, and once the
\* scheduler has run dry every applied render of a component that is still
\* alive has had its rendered() call.
C11_RenderedOncePerAppliedRender ==
    /\ \A c \in Comps : hist[c].rendered <= hist[c].applied
    /\ ~running =>
          \A c \in Comps :
              IsSome(state[c]) => hist[c].rendered = hist[c].applied

\* C12: mount ordering across parent and child.  As long as no message has
\* been sent, a child's rendered() runs only after its parent's create()
\* and view(), and the parent's rendered(true) runs only after the
\* rendered() of the child its tree contains.
C12_MountOrderParentChild ==
    nextId = 1 =>
        /\ \A k \in Kids :
              hist[k].rendered > 0 =>
                  /\ hist[Root].created = 1
                  /\ hist[Root].applied = 1
        /\ (hist[Root].rendered > 0 /\ nextKid > 1) => hist[1].rendered = 1

\* the root's rendered(true) has just run, after its child's rendered()
C12_Witness ==
    /\ nextId = 1 /\ nextKid > 1
    /\ last.kind = "Rendered" /\ last.task.comp = Root /\ last.task.first_render
    /\ last.calls = <<<<"rendered", 0>>>>
    /\ hist[1].rendered = 1

\* C13: a message a component sends to itself from create(), its first
\* view() or rendered(true) reaches update() only after rendered(true) has
\* returned, and does reach it if the component lives on; a message sent
\* from inside an update() that caused a render reaches update() only after
\* the rendered(false) of that render.
C13_SelfMessagesWaitForRendered ==
    /\ \A id \in IdsOf(last.calls, "update") :
          /\ id \in last.pre.needTrue => last.pre.rendered > 0
          /\ \A n \in 0..(MaxMsgs + 1) :
                <<id, n>> \in last.pre.needFalse => last.pre.renderedFalse >= n
    /\ ~running =>
          \A c \in Comps :
              IsSome(state[c]) => hist[c].needTrue \subseteq hist[c].seen

Pending(st, c) == Unwrap(st[c]).pending_updates

\* The last n tasks of the update queue qu.
Tail_n(qu, n) == SubSeq(qu, Len(qu) - n + 1, Len(qu))

\* C15: pending_updates of a living component only grows at its end,
\* except in a Rendered task of that component that has called rendered():
\* that task empties it and leaves the deferred updates, in arrival order
\* and with nothing in between, at the end of the update queue.
C15_PendingDrainedByRendered ==
    [][\A c \in Comps :
          (/\ IsSome(state[c]) /\ IsSome(state'[c])
           /\ Pending(state', c) # Pending(state, c)
           /\ ~(/\ Len(Pending(state', c)) > Len(Pending(state, c))
                /\ SubSeq(Pending(state', c), 1, Len(Pending(state, c)))
                      = Pending(state, c))) =>
              /\ last'.kind = "Rendered" /\ last'.task.comp = c
              /\ last'.calls # <<>> /\ last'.calls[1] = <<"rendered", 0>>
              /\ Pending(state', c) = <<>>
              /\ Len(q'.Update) >= Len(Pending(state, c))
              /\ Tail_n(q'.Update, Len(Pending(state, c))) = Pending(state, c)
              /\ Len(q'.Update) = Len(q.Update) + Len(Pending(state, c))
                                  + Count(last'.calls, "send")]_vars

\* two deferred updates have just been re-enqueued by a Rendered task
C15_Witness ==
    /\ last.kind = "Rendered" /\ last.pending = 2
    /\ "rendered" \in Names(last.calls)
    /\ IsSome(state[last.task.comp])
    /\ Pending(state, last.task.comp) = <<>>
    /\ Len(q.Update) = 2
    /\ q.Update[1].update.ms[1].id = 1 /\ q.Update[2].update.ms[1].id = 2

\* C16: a Properties update that is processed (the component is alive and
\* no render is in flight) calls changed() exactly if the new properties
\* differ from the stored ones, calls view() exactly if changed() was
\* called and returned true, and leaves the new properties, node_ref and
\* next_sibling in the component state in every case.
C16_PropertiesUpdate ==
    [][(/\ running /\ NextKind = "Update"
        /\ NextTask.update.t = "Properties"
        /\ IsSome(state[NextTask.comp])
        /\ Unwrap(state[NextTask.comp]).new_root = None) =>
           LET c == NextTask.comp
               u == NextTask.update
               s == Unwrap(state[c])
           IN /\ last'.task = NextTask
              /\ Count(last'.calls, "changed") = (IF s.props # u.props THEN 1 ELSE 0)
              /\ Count(last'.calls, "update") = 0
              /\ Count(last'.calls, "view")
                    = (IF <<"changed", 1>> \in {last'.calls[i] : i \in DOMAIN last'.calls}
                       THEN 1 ELSE 0)
              /\ IsSome(state'[c])
              /\ Unwrap(state'[c]).props = u.props
              /\ Unwrap(state'[c]).node_ref = u.node_ref
              /\ Unwrap(state'[c]).next_sibling = u.next_sibling]_vars

\* a child has processed new properties: changed() returned true and
\* view() followed
C16_Witness ==
    /\ Processed /\ last.task.update.t = "Properties"
    /\ last.calls = <<<<"changed", 1>>, <<"view", 0>>>>
    /\ Unwrap(state[last.task.comp]).props = last.task.update.props
    /\ Unwrap(state[last.task.comp]).node_ref = last.task.update.node_ref
    /\ last.task.update.node_ref.ver > 1

\* The Render task at the head of the scheduler will apply a tree.
Applies ==
    /\ running /\ NextKind = "Render"
    /\ IsSome(state[NextTask.comp])
    /\ IsSome(Unwrap(state[NextTask.comp]).new_root)
    /\ (NextTask.first_render \/ IsSome(Unwrap(state[NextTask.comp]).last_root))

\* The child instance of the tree that the component of the Render task
\* shows now (0: none), and its type.
AncestorKid ==
    LET s == Unwrap(state[NextTask.comp])
    IN IF IsSome(s.last_root) THEN Unwrap(s.last_root).kid ELSE 0
AncestorType ==
    LET s == Unwrap(state[NextTask.comp])
    IN IF IsSome(s.last_root) THEN Unwrap(s.last_root).ty ELSE "A"

\* C17: ComponentRef reconciliation.  Applying a tree whose child VComp has
\* the type of the ancestor's child enqueues one Properties update for the
\* existing instance and neither creates nor destroys an instance, on
\* every re-apply; against any other ancestor the ancestor's instance (if
\* any) is detached first, its Destroy task scheduled, and a fresh instance
\* is mounted.
C17_ComponentRefReconciliation ==
    [][(Applies /\ Unwrap(Unwrap(state[NextTask.comp]).new_root).want) =>
          LET c == NextTask.comp
              nr == Unwrap(Unwrap(state[c]).new_root)
              k == AncestorKid
              calls == last'.calls
          IN IF k # 0 /\ AncestorType = nr.ty
             THEN /\ q'.Update = Append(q.Update,
                        UpdateComponent(k, Properties(nr.cp, VCompRef(nr.ver),
                                                     SiblingRef(nr.ver))))
                  /\ q'.Create = q.Create /\ q'.Destroy = q.Destroy
                  /\ nextKid' = nextKid
                  /\ Unwrap(Unwrap(state'[c]).last_root).kid = k
                  /\ hist'[k].created = hist[k].created
                  /\ hist'[k].destroyed = hist[k].destroyed
                  /\ Names(calls) \cap {"mount_kid", "detach_kid"} = {}
             ELSE /\ q'.Destroy = (IF k # 0
                                   THEN Append(q.Destroy, DestroyComponent(k))
                                   ELSE q.Destroy)
                  /\ k # 0 =>
                        \E i, j \in DOMAIN calls :
                            /\ i < j
                            /\ calls[i] = <<"detach_kid", k>>
                            /\ calls[j] = <<"mount_kid", nextKid>>
                  /\ q'.Create = Append(q.Create,
                        CreateComponent(nextKid, nr.cp, Some(Placeholder),
                                        VCompRef(nr.ver), SiblingRef(nr.ver)))
                  /\ q'.Update = Append(q.Update, UpdateComponent(nextKid, First))
                  /\ nextKid' = nextKid + 1
                  /\ Unwrap(Unwrap(state'[c]).last_root).kid = nextKid
                  /\ "reuse_kid" \notin Names(calls)]_vars

\* the root has re-applied its tree for the second time onto the same
\* child instance
C17_Witness ==
    /\ last.kind = "Render" /\ last.task.comp = Root /\ last.pre.applied = 2
    /\ <<"reuse_kid", 1>> \in {last.calls[i] : i \in DOMAIN last.calls}
    /\ nextKid = 2
    /\ hist[1].created = 1 /\ hist[1].destroyed = 0

\* C18: whenever a frame holding a fragment that has siblings and no
\* children is applied, the fragment afterwards owns exactly one node, an
\* empty text node that stands under the parent at the fragment's place
\* (never zero nodes); re-rendering [A, List[X], B] as [A, List[], B] leaves
\* exactly the three nodes A, placeholder, B.
C18_ListPlaceholder ==
    \A frame \in Frames : \A i \in DOMAIN frame.children :
        LET l == frame.children[i]
            r == Diff(frame)
        IN (/\ ~dom.panic /\ ~r.w.panic
            /\ l.k = "List" /\ ~l.no_siblings /\ l.children = <<>>)
           => LET own == Owned(r.self.children[i])
                  at == Len(OwnedFrom(r.self.children, 1)) - Len(OwnedFrom(r.self.children, i)) + 1
              IN /\ Len(own) = 1
                 /\ NodeIds(r.w.children) = Owned(r.self)
                 /\ r.w.children[at] = DomNode(own[1], "")
                 /\ (frame = ABFrame(<<>>) /\ NodeTexts(dom.children) = <<"A", "x", "B">>)
                       => NodeTexts(r.w.children) = <<"A", "", "B">>

\* [A, List[X], B] stands rendered and [A, List[], B] applies over it.
C18_Witness ==
    /\ ~dom.panic
    /\ IsSome(dom.root)
    /\ NodeTexts(dom.children) = <<"A", "x", "B">>
    /\ Unwrap(dom.root).children[2].k = "List"
    /\ NodeTexts(Diff(ABFrame(<<>>)).w.children) = <<"A", "", "B">>

\* The children an ancestor counts for: those of a fragment, the ancestor
\* itself when it is no fragment, none when there is no ancestor.
AncestorChildren(ancestor) ==
    IF ancestor = None THEN <<>>
    ELSE IF Unwrap(ancestor).k = "List" THEN Unwrap(ancestor).children
    ELSE <<Unwrap(ancestor)>>

\* What a fragment of n children does over m ancestor children.
Pairing(at, n, m) ==
    [i \in 1..(IF n > m THEN n ELSE m) |->
        IF i <= n
        THEN [at |-> at, op |-> "apply", left |-> i, right |-> IF i <= m THEN i ELSE 0]
        ELSE [at |-> at, op |-> "detach", left |-> 0, right |-> i]]

LogAt(log, at) == SelectSeq(log, LAMBDA e : e.at = at)

\* The fragment new (applied: done) met the ancestor children rights
\* position by position, on the way from the parent s to the parent t.
Positional(log, at, new, done, rights, s, t) ==
    LET n == IF new.children = <<>> /\ ~new.no_siblings THEN 1 ELSE Len(new.children)
        m == Len(rights)
    IN /\ LogAt(log, at) = Pairing(at, n, m)
       /\ \A j \in 1..m :
             Cardinality({e \in DOMAIN LogAt(log, at) : LogAt(log, at)[e].right = j}) = 1
       /\ \A i \in 1..n :
             done.children[i].k = "Text"
             => IF i <= m /\ rights[i].k = "Text"
                THEN done.children[i].reference = rights[i].reference
                ELSE done.children[i].reference \notin Ids(s)
       /\ \A j \in (n + 1)..m :
             \A k \in DOMAIN Owned(rights[j]) : Owned(rights[j])[k] \notin Ids(t)

InOrderAfter(s, own, p) ==
    /\ \A j \in DOMAIN own : own[j] \in Ids(s)
    /\ \A j \in DOMAIN own :
          IndexOf(s, own[j]) = (IF p = NoNode THEN 0 ELSE IndexOf(s, p)) + j

LastOf(own) == IF own = <<>> THEN NoNode ELSE own[Len(own)]

\* C20: when the apply of a frame returns, the nodes of the frame's children
\* stand under the parent in the order of the children, and the nodes of
\* each fragment in it stand next to each other right behind the node of
\* the fragment's previous sibling, also over nodes of later siblings.
C20_InsertionOrder ==
    \A frame \in Frames :
        LET r == Diff(frame)
        IN (~dom.panic /\ ~r.w.panic)
           => /\ InOrderAfter(r.w.children, Owned(r.self), NoNode)
              /\ \A i \in DOMAIN r.self.children :
                    r.self.children[i].k = "List"
                    => InOrderAfter(r.w.children, Owned(r.self.children[i]),
                                    LastOf(OwnedFrom(SubSeq(r.self.children, 1, i - 1), 1)))

\* The vnodes of the tree rendered last: the frame, its children, theirs.
Rendered ==
    IF ~IsSome(dom.root) THEN {}
    ELSE LET root == Unwrap(dom.root)
         IN {root} \cup {root.children[i] : i \in DOMAIN root.children}
                   \cup UNION {{root.children[i].children[j] :
                                   j \in DOMAIN root.children[i].children} :
                               i \in DOMAIN root.children}

\* The node that stands right behind the last of the nodes own under s.
NodeBehind(s, own) ==
    LET at == {IndexOf(s, own[j]) : j \in {k \in DOMAIN own : own[k] \in Ids(s)}}
    IN IF at = {} THEN NoNode
       ELSE LET hi == CHOOSE i \in at : \A j \in at : j <= i
            IN IF hi < Len(s) THEN s[hi + 1].id ELSE NoNode

Gone(s, own) == SelectSeq(s, LAMBDA e : \A j \in DOMAIN own : own[j] # e.id)

\* C21: detaching a rendered vnode takes every node it owns out of the
\* parent, leaves the other nodes as they stand, and returns the node that
\* stood right behind the removed ones (none only when nothing stood there),
\* also for a fragment whose last child is an empty fragment.
C21_DetachReturnsNextSibling ==
    \A v \in Rendered :
        LET r == VNode_detach(D, v)
        IN (~dom.panic /\ ~r.w.panic)
           => /\ r.w.children = Gone(dom.children, Owned(v))
              /\ Owned(v) # <<>> => r.node = NodeBehind(dom.children, Owned(v))

\* The places of a frame: its children and the children of its fragments.
Places(frame) ==
    {<<i>> : i \in DOMAIN frame.children}
        \cup UNION {{<<i, j>> : j \in DOMAIN frame.children[i].children} :
                    i \in DOMAIN frame.children}

At(frame, place) ==
    IF Len(place) = 1 THEN frame.children[place[1]]
    ELSE frame.children[place[1]].children[place[2]]

\* The ancestor that the vnode at a place of the next frame is applied to.
AncestorAt(place) ==
    LET rights == AncestorChildren(dom.root)
        top == IF place[1] <= Len(rights) THEN Some(rights[place[1]]) ELSE None
    IN IF Len(place) = 1 THEN top
       ELSE LET inner == AncestorChildren(top)
            IN IF place[2] <= Len(inner) THEN Some(inner[place[2]]) ELSE None

\* The nodes of the applied frame done that come before the given place.
OwnedBefore(done, place) ==
    IF Len(place) = 1 THEN OwnedFrom(SubSeq(done.children, 1, place[1] - 1), 1)
    ELSE OwnedFrom(SubSeq(done.children, 1, place[1] - 1), 1)
            \o OwnedFrom(SubSeq(done.children[place[1]].children, 1, place[2] - 1), 1)

\* C22: a node handed over by reference never takes over its ancestor: the
\* nodes of the ancestor are gone from the parent, and the node stands where
\* the ancestor stood, or, without ancestor, right behind its previous
\* sibling, at the end of the parent only if it has none.
C22_ExternalRefReplaces ==
    \A frame \in Frames : \A place \in Places(frame) :
        LET r == Diff(frame)
            n == At(frame, place).reference
            before == OwnedBefore(r.self, place)
            ancestor == AncestorAt(place)
        IN (~dom.panic /\ ~r.w.panic /\ At(frame, place).k = "Ref")
           => /\ n \in Ids(r.w.children)
              /\ IsSome(ancestor)
                    => \A k \in DOMAIN Owned(Unwrap(ancestor)) :
                          Owned(Unwrap(ancestor))[k] \in Ids(r.w.children) \cup {n}
                          => Owned(Unwrap(ancestor))[k] = n
              /\ before # <<>> => InOrderAfter(r.w.children, <<n>>, LastOf(before))


\* The child components some live component's last rendered tree holds.
Attached ==
    {k \in Kids : \E c \in Comps :
        /\ IsSome(state[c])
        /\ IsSome(Unwrap(state[c]).last_root)
        /\ Unwrap(Unwrap(state[c]).last_root).kid = k}

\* The child components whose detach() the last task called.
DetachedKids ==
    {last.calls[i][2] : i \in {j \in DOMAIN last.calls : last.calls[j][1] = "detach_kid"}}

\* C23: detaching a mounted child component schedules a Destroy task for
\* it; a Destroy task that finds the component alive calls destroy(),
\* detaches the tree it rendered last and sets its node reference to none;
\* so once the scheduler is idle again a child that is no longer part of
\* any rendered tree holds no state and its node reference is none.
C23_DetachDestroysAndResetsRef ==
    /\ \A k \in DetachedKids :
          \E i \in DOMAIN q.Destroy : q.Destroy[i] = DestroyComponent(k)
    /\ (last.kind = "Destroy" /\ last.live) =>
          LET c == last.task.comp IN
          /\ "destroy" \in Names(last.calls)
          /\ last.pre.applied > 0 => "detach" \in Names(last.calls)
          /\ state[c] = None /\ surf[c] = None /\ refs[c] = "none"
    /\ ~running =>
          \A k \in Kids : (Linked(k) /\ k \notin Attached) =>
              /\ state[k] = None /\ refs[k] = "none"
              /\ hist[k].created > 0 => hist[k].destroyed = 1

\* a child that had rendered was replaced under a living root, its Destroy
\* task ran and the scheduler is idle
C23_Witness ==
    /\ ~running /\ IsSome(state[Root])
    /\ \E k \in Kids :
          /\ Linked(k) /\ k \notin Attached
          /\ hist[k].applied > 0 /\ hist[k].destroyed = 1
          /\ refs[k] = "none"


RECURSIVE Source(_)
\* The tree as it was handed to apply: a text has no node yet, and the
\* empty text that holds the place of an empty fragment is not there.
Source(v) ==
    IF v.k = "Text" THEN VText(v.text)
    ELSE IF v.k = "Ref" THEN v
    ELSE IF ~v.no_siblings /\ Len(v.children) = 1 /\ v.children[1].k = "Text"
            /\ v.children[1].text = ""
    THEN VList(FALSE, <<>>)
    ELSE VList(v.no_siblings, [i \in DOMAIN v.children |-> Source(v.children[i])])

\* C24: a frame applied over the same frame rendered before, whose nodes
\* stand under the parent, takes no node out of the parent and puts none
\* into it, and the children of the parent stay as they are.
C24_NoOpDiff ==
    (IsSome(dom.root) /\ ~dom.panic
     /\ Owned(Unwrap(dom.root)) = NodeIds(dom.children)) =>
        LET r == Diff(Source(Unwrap(dom.root)))
        IN /\ ~r.w.panic
           /\ r.w.children = dom.children
           /\ r.w.moved = 0


\* C25: the search returns the nearest link of the chain (the link itself
\* first) whose type is the provider type asked for, none when the chain
\* holds no such link, downcasts no link of another type and never fails;
\* a link outside the chain is never returned.
C25_NearestProvider ==
    (ctx.done /\ ctx.link # 0) =>
        LET chain == ChainOf(ctx.link)
            hits == {i \in DOMAIN chain : ctx.type_id[chain[i]] = ctx.T}
        IN /\ ~ctx.panic
           /\ \A l \in ctx.downcast : ctx.type_id[l] = ctx.T
           /\ hits = {} => ctx.found = 0
           /\ hits # {} =>
                 ctx.found = chain[CHOOSE i \in hits : \A j \in hits : i <= j]

\* the search passed a link of another type and found the nearer of two
\* providers of the chain while a provider of the same type stands outside
\* the chain
C25_Witness ==
    /\ ctx.done /\ ctx.link # 0
    /\ ctx.found \notin {0, ctx.link}
    /\ LET chain == ChainOf(ctx.link)
       IN /\ Cardinality({i \in DOMAIN chain : ctx.type_id[chain[i]] = ctx.T}) = 2
          /\ \E l \in 1..MaxLinks :
                /\ \A i \in DOMAIN chain : chain[i] # l
                /\ ctx.type_id[l] = ctx.T


\* The runs of the use_effect_with_deps effect before place i of the log.
RunsBefore(i) == {j \in FcAt("effect", 2) : j < i}

\* C26: the first closure of use_effect_with_deps that is processed runs
\* the effect, and that is after a rendered(); a later closure runs it
\* again only if its dependencies differ from those of the previous run,
\* and then the destructor of the previous run is called right before;
\* a destructor is called once at most, and otherwise only when the
\* component is destroyed; a mounted component that has rendered and has no
\* task left has run the effect.
C26_EffectRerunsOnChangedDeps ==
    LET E == FcAt("effect", 2)
        X == FcAt("destructor", 2)
        M == FcAt("post", 2)
        log == fc.log
        Same(i, j) == log[i].view = log[j].view /\ log[i].deps = log[j].deps
    IN /\ \A i \in M :
             IF RunsBefore(i) = {}
             THEN (i + 1) \in E /\ Same(i + 1, i)
             ELSE LET p == SetMax(RunsBefore(i), 0) IN
                  IF log[p].deps # log[i].deps
                  THEN /\ (i + 1) \in X /\ log[i + 1].view = log[p].view
                       /\ (i + 2) \in E /\ Same(i + 2, i)
                  ELSE (i + 1) \notin (E \cup X)
       /\ \A i \in E : (i - 1) \in M \/ ((i - 1) \in X /\ (i - 2) \in M)
       /\ \A i \in X : (i - 1) \in M \/ \E j \in FcAt("destroy", 0) : j < i
       /\ \A i, j \in X : i # j => log[i].view # log[j].view
       /\ \A i \in E : \E r \in FcAt("rendered", 0) : r < i
       /\ (fc.phase = "live" /\ FcIdle /\ fc.has_rendered) => E # {}

\* three renders of a mounted component: the effect ran after the first,
\* not after the second with the same dependencies, and again after the
\* third with other dependencies, the first destructor called in between
C26_Witness ==
    /\ fc.phase = "live" /\ FcIdle
    /\ Cardinality(FcAt("post", 2)) = 3
    /\ Cardinality(FcAt("effect", 2)) = 2
    /\ Cardinality(FcAt("destructor", 2)) = 1
    /\ \E i \in FcAt("post", 2) : RunsBefore(i) # {} /\ (i + 1) \notin FcAt("destructor", 2)


\* What one step added to the log of the function component.
FcNew == SubSeq(fc'.log, Len(fc.log) + 1, Len(fc'.log))

\* The closures of the hooks among the messages ms.
FcPosts(ms) == {ms[k] : k \in {j \in DOMAIN ms : ms[j].k = "post"}}

\* C27: a closure registered with post_render during view() is not run in
\* that view() and is not sent by it: it is put on the message queue; it
\* is sent to the link only by rendered(), which sends the whole queue in
\* the order of registration and leaves it empty, and the rendered() that
\* sends it is the one of the render the view() was for; a closure
\* registered with callback is sent at once.
C27_PostRenderHeldUntilRendered ==
    [][LET new == FcNew
           views == {i \in DOMAIN new : new[i].e = "view"}
           rends == {i \in DOMAIN new : new[i].e = "rendered"}
       IN /\ \A i \in views :
                /\ \A j \in DOMAIN new :
                      new[j].e \in {"post", "effect"} => new[j].view # new[i].view
                /\ fc'.message_queue =
                      fc.message_queue
                         \o <<FcMsg("post", 1, new[i].view, new[i].deps, FALSE),
                              FcMsg("post", 2, new[i].view, new[i].deps, FALSE)>>
                /\ \A m \in FcPosts(fc'.updates \o fc'.pending) : m.view # new[i].view
          /\ \A i \in rends :
                /\ fc'.message_queue = <<>>
                /\ fc'.updates = fc.updates \o fc.message_queue \o fc.pending
                /\ \A k \in DOMAIN fc.message_queue :
                      fc.message_queue[k].view = new[i].view
          /\ rends = {} =>
                FcPosts(fc'.updates \o fc'.pending) \subseteq FcPosts(fc.updates \o fc.pending)
          /\ fc'.calls = fc.calls + 1 =>
                /\ Len(fc'.updates) = Len(fc.updates) + 1
                /\ fc'.updates[Len(fc'.updates)].k = "callback"
                /\ fc'.message_queue = fc.message_queue]_vars


\* The task called update() or changed() and every result was false.
ResultsFalse(t, calls) ==
    /\ Names(calls) \cap {"update", "changed"} # {}
    /\ CASE t.update.t = "Message" -> ~t.update.ms[1].r
         [] t.update.t = "MessageBatch" -> ~AnyTrue(t.update.ms)
         [] t.update.t = "Properties" -> \E i \in DOMAIN calls : calls[i] = <<"changed", 0>>
         [] OTHER -> FALSE

\* The fields of the component's state that belong to rendering.
RenderFields(st) ==
    IF st = None THEN None
    ELSE <<Unwrap(st).last_root, Unwrap(st).new_root, Unwrap(st).has_rendered>>

\* C28: an Update task of a live component in which every update() or
\* changed() returned false calls no view(), pushes no Render and no
\* Rendered task, and leaves last_root, new_root, has_rendered and the
\* surface as they were.
C28_FalseUpdateRendersNothing ==
    [][(running /\ NextKind = "Update" /\ ResultsFalse(last'.task, last'.calls)) =>
          /\ "view" \notin Names(last'.calls)
          /\ q'.Render = q.Render /\ q'.Rendered = q.Rendered
          /\ \A c \in Comps : RenderFields(state'[c]) = RenderFields(state[c])
          /\ surf' = surf]_vars

\* a component that has rendered processed a properties update whose
\* changed() returned false
C28_Witness ==
    /\ last.kind = "Update" /\ last.live
    /\ last.task.update.t = "Properties"
    /\ ResultsFalse(last.task, last.calls)
    /\ IsSome(state[last.task.comp])
    /\ Unwrap(state[last.task.comp]).has_rendered


C30_RunToCompletion ==
    [][(running /\ NextKind # "none") =>
          LET t == NextTask
              calls == last'.calls
          IN /\ last'.task = t
             /\ \A k \in Comps \ {t.comp} : state'[k] = state[k] /\ hist'[k] = hist[k]
             /\ t.kind = "Render" =>
                   Names(calls) \subseteq {"apply", "mount_kid", "reuse_kid", "detach_kid"}
             /\ \A k \in IdsOf(calls, "mount_kid") :
                   /\ state'[k] = None
                   /\ \E i \in DOMAIN q'.Create : q'.Create[i].comp = k
                   /\ \E i \in DOMAIN q'.Update : q'.Update[i] = UpdateComponent(k, First)
             /\ \A k \in IdsOf(calls, "reuse_kid") :
                   \E i \in DOMAIN q'.Update :
                       q'.Update[i].comp = k /\ q'.Update[i].update.t = "Properties"
             /\ \A k \in IdsOf(calls, "detach_kid") :
                   \E i \in DOMAIN q'.Destroy : q'.Destroy[i] = DestroyComponent(k)
             /\ \A id \in IdsOf(calls, "send") :
                   /\ id \notin IdsOf(calls, "update")
                   /\ \E i \in DOMAIN q'.Update :
                         /\ q'.Update[i].update.t = "Message"
                         /\ q'.Update[i].update.ms[1].id = id]_vars

\* a Render task has replaced a living child by a fresh one: the Destroy
\* task of the old and the Create task of the new child wait in the queues
C30_Witness ==
    /\ last.kind = "Render" /\ running
    /\ \E k \in IdsOf(last.calls, "detach_kid") :
          /\ IsSome(state[k])
          /\ \E i \in DOMAIN q.Destroy : q.Destroy[i] = DestroyComponent(k)
    /\ \E k \in IdsOf(last.calls, "mount_kid") :
          /\ state[k] = None
          /\ \E i \in DOMAIN q.Create : q.Create[i].comp = k


\* C31: rendered(true) is called once at most for a component, rendered(false)
\* only after rendered(true) has been called, and a Rendered(false) task
\* that finds has_rendered false calls no callback.
C31_RenderedTrueFirstAndOnce ==
    /\ \A c \in Comps :
          /\ hist[c].rendered - hist[c].renderedFalse <= 1
          /\ hist[c].renderedFalse > 0 => hist[c].rendered - hist[c].renderedFalse = 1
    /\ (last.kind = "Rendered" /\ ~last.task.first_render /\ last.pre.rendered = 0) =>
          last.calls = <<>>

\* a Rendered(false) task of a living component ran before rendered(true)
\* was called, and rendered(true) has been called since
C31_Witness ==
    /\ \E c \in Comps :
          /\ IsSome(state[c])
          /\ hist[c].applied = 2 /\ hist[c].rendered = 1 /\ hist[c].renderedFalse = 0
    /\ last.kind = "Rendered" /\ last.task.first_render /\ last.live
    /\ hist[last.task.comp].applied = 2


\* C32: once destroy() of a component has run, nothing stands in the surface
\* on its behalf: neither its last tree nor the placeholder text node of
\* its mount, also when it is destroyed before its first render.
C32_DestroyLeavesNoNodes ==
    \A c \in Comps : hist[c].destroyed > 0 => surf[c] = None

\* C33: no task and no callback issued from inside a task asks for a
\* mutable borrow of the state cell while one is held: the already-borrowed
\* panic of the cell is never reached.
C33_NoAlreadyBorrowedPanic == ~cell.panic

\* A task of the given kind for component c is in the scheduler's queue.
InQueue(kind, c) == \E i \in DOMAIN q[kind] : q[kind][i].comp = c

\* The Update task at the head leaves the surface as it is.
UpdateKeepsSurface == (running /\ NextKind = "Update") => surf' = surf

\* C35: between tasks a live component with a new_root has a Render task
\* in the queue, and one with deferred updates has a Render or a Rendered
\* task in the queue; an Update task applies no tree to the surface.
C35_RenderFollowsNewRoot ==
    /\ [](\A c \in Comps :
             IsSome(state[c]) =>
               /\ IsSome(Unwrap(state[c]).new_root) => InQueue("Render", c)
               /\ Unwrap(state[c]).pending_updates # <<>> =>
                     (InQueue("Render", c) \/ InQueue("Rendered", c)))
    /\ [](last.kind = "Update" => "apply" \notin Names(last.calls))
    /\ [][UpdateKeepsSurface]_vars

\* An Update task of c ran and left c with deferred updates and no
\* new_root: only the Rendered task still to come will replay them.
C35_Witness ==
    /\ last.kind = "Update" /\ last.live
    /\ LET c == last.task.comp
       IN /\ IsSome(state[c])
          /\ Unwrap(state[c]).new_root = None
          /\ Unwrap(state[c]).pending_updates # <<>>
          /\ InQueue("Rendered", c) /\ ~InQueue("Render", c)

\* The Render task at the head (link.rs) finds no new_root, or is not the
\* first render while last_root is absent.
IdleRender ==
    /\ running /\ NextKind = "Render" /\ IsSome(state[NextTask.comp])
    /\ LET s == Unwrap(state[NextTask.comp])
       IN s.new_root = None \/ (~NextTask.first_render /\ s.last_root = None)

\* The same for the Render task of the component of html/scope.rs, and the
\* step is the run of that task.
ScopeIdleRender ==
    /\ IsSome(cell.state) /\ ~cell.panic /\ ScopeNextKind = "Render"
    /\ LET s == Unwrap(cell.state)
       IN s.new_root = 0 \/ (~ScopeNextTask /\ s.last_root = 0)
    /\ cell'.ran = "Render" /\ Len(cell'.q.Render) < Len(cell.q.Render)

\* C36: once a tree was applied for a live component, last_root is present
\* and is the tree applied to the surface last; a Render task that finds no
\* new_root, or is not the first render while last_root is absent, changes
\* neither last_root nor the surface. Stated for link.rs (state, surf) and
\* for html/scope.rs (cell).
C36_OneCurrentTree ==
    /\ [](\A c \in Comps :
             (IsSome(state[c]) /\ hist[c].applied > 0) =>
                /\ IsSome(Unwrap(state[c]).last_root)
                /\ surf[c] = Some(Unwrap(Unwrap(state[c]).last_root).ver))
    /\ []((IsSome(cell.state) /\ cell.applied > 0) =>
             /\ Unwrap(cell.state).last_root # 0
             /\ cell.surface = Unwrap(cell.state).last_root)
    /\ [][IdleRender =>
             /\ surf' = surf
             /\ Unwrap(state'[NextTask.comp]).last_root
                  = Unwrap(state[NextTask.comp]).last_root]_vars
    /\ [][ScopeIdleRender =>
             /\ cell'.surface = cell.surface
             /\ Unwrap(cell'.state).last_root = Unwrap(cell.state).last_root]_vars

\* The second tree was applied and its Rendered task has run; the Render
\* task that ran last found no new_root and left the tree in place.
C36_Witness ==
    /\ IsSome(cell.state) /\ cell.ran = "Render"
    /\ cell.applied = 2 /\ cell.surface = 2
    /\ Unwrap(cell.state).last_root = 2 /\ Unwrap(cell.state).new_root = 0
    /\ Unwrap(cell.state).has_rendered /\ cell.q.Rendered = <<>>

\* No task is left in the scheduler's queues.
Quiescent == NextKind = "none"
CellQuiescent == CellNextKind = "none"

\* C34: the scheduler always reaches an empty queue again, and whenever the
\* queue is empty every live component has no new_root and no deferred
\* update left. Stated for the one-component model (cell) and, as far as
\* the quiescent state goes, for the components of state.
C34_NoStrandedUpdate ==
    /\ (~CellQuiescent) ~> CellQuiescent
    /\ []((CellQuiescent /\ IsSome(cell.state)) =>
            /\ ~Unwrap(cell.state).new_root
            /\ Unwrap(cell.state).pending_updates = <<>>)
    /\ [](Quiescent =>
            \A c \in Comps :
               IsSome(state[c]) =>
                 /\ Unwrap(state[c]).new_root = None
                 /\ Unwrap(state[c]).pending_updates = <<>>)

\* The queue is empty, the component is alive, and an update that was
\* deferred has been replayed.
C34_Witness ==
    /\ CellQuiescent /\ IsSome(cell.state)
    /\ cell.deferred > 0 /\ Unwrap(cell.state).pending_updates = <<>>
    /\ Unwrap(cell.state).has_rendered /\ cell.ran = "Update"

====
